---------------------------- MODULE Spec2Model ----------------------------
(***************************************************************************)
(* The deployment layer of common/xdg-app-dir.c for one ref: the checkouts *)
(* under <deploy-base>/, the `active` symlink, <base>/.removed/ and the    *)
(* liveness lock on files/.ref.  Store operations (deploy, undeploy,       *)
(* set-active, cleanup-removed) run in processes that interleave at the    *)
(* granularity of the file-system calls that touch shared state.           *)
(* Applications open and lock files/.ref.  The object store (ostree) is an *)
(* external collaborator: each call into it either fails or succeeds.      *)
(* gs_shutil_rm_rf is taken by its contract: it removes the tree.          *)
(***************************************************************************)
EXTENDS Naturals, Integers, FiniteSets, Sequences, TLC

\* ------------------------------------------------------------ bounds
NumChecksums == 2
NumProcs == 2
MaxCheckouts == 2
MaxEntries == 2
MaxLen == 3

Checksums == 1..NumChecksums
Procs == 1..NumProcs
Ids == 1..MaxCheckouts

\* A NULL checksum / a missing `active` symlink / no checkout.
Absent == 0

VARIABLES
  checkouts,   \* id -> the checkout directory created by the id-th mkdir
  active,      \* target of <deploy-base>/active, Absent when missing
  removed_dir, \* <base>/.removed/ exists
  proc,        \* per store process: position and locals of its operation
  ref_lock,    \* id -> some application holds the lock on files/.ref of the checkout
  export_dir,  \* the export/ directory a run of the Launcher Rewriter walks
  rw,          \* the run of the Launcher Rewriter: its directory iterators and result
  kind_dir,    \* <base>/<kind>/: whether it exists and its entries, three levels deep
  current,     \* target of <base>/app/<name>/current, NoLink when missing
  answer,      \* what the last lookup returned
  exports,     \* <base>/exports/: the entry at each relative path
  app_export,  \* <base>/app/<changed-app>/current/active/export/: its entries
  triggers,    \* the trigger directory, in the order it is enumerated
  ux,          \* the run of update-exports: position, work left, triggers invoked
  last,        \* what the previous update-exports left, when it succeeded
  desktop,     \* the key file export_desktop_file loaded and the ref it is exported for
  exported,    \* the key file export_desktop_file wrote, once it has
  remote,      \* the remote: the scheme of its URL and what it answers for each object
  fetch,       \* the run of fetch-metadata: position, requests made, last load, result
  user,        \* the scope of the store: per-user or system-wide
  repo_dir,    \* <base>/repo: missing, or the mode it was created in
  self_repo,   \* per store instance: the object store handle it keeps, NULL when none
  er,          \* per store instance: what its last ensure-repo did and returned
  overrides,   \* <base>/overrides/<app> of either scope: the key file data in it, if any
  ov,          \* the last override operation: what was saved or loaded, and the result
  config,      \* the configuration of the object store: NULL, or the options of each remote
  option,      \* the last remote option asked for and the value returned
  origin_file, \* content of <deploy-base>/origin, NoOrigin when it cannot be read
  repo_refs,   \* the object store: the commit each revision resolves to, Absent for none
  ld,          \* the last load-deployed: its arguments, its result and the deploy it returned
  mc,          \* the run of make-current-ref: position, the ref given, what `current` was, result
  actives,     \* the paths <name>/<x>/<y> under <base>/<kind>/ whose `active` exists and resolves
  collected,   \* the last collect-deployed-refs: its arguments, result and the names it added
  ref_fault    \* id -> what fails when files/.ref of the checkout is probed: nothing, open or F_GETLK

store_vars == <<checkouts, active, removed_dir, proc, ref_lock>>
rewriter_vars == <<export_dir, rw>>
lookup_vars == <<kind_dir, current, answer>>
exports_vars == <<exports, app_export, triggers, ux, last>>
exec_vars == <<desktop, exported>>
fetch_vars == <<remote, fetch>>
repo_vars == <<user, repo_dir, self_repo, er>>
override_vars == <<overrides, ov>>
option_vars == <<config, option>>
resolve_vars == <<origin_file, repo_refs>>
loaded_vars == <<ld>>
current_vars == <<mc>>
collect_vars == <<actives, collected>>
probe_vars == <<ref_fault>>
vars == <<store_vars, rewriter_vars, lookup_vars, exports_vars, exec_vars, fetch_vars, repo_vars, override_vars, option_vars, resolve_vars, loaded_vars, current_vars, collect_vars, probe_vars>>

\* What each group of operations leaves alone.
other_than_store == <<rewriter_vars, lookup_vars, exports_vars, exec_vars, fetch_vars, repo_vars, override_vars, option_vars, resolve_vars, loaded_vars, current_vars, collect_vars, probe_vars>>
other_than_rewriter == <<store_vars, lookup_vars, exports_vars, exec_vars, fetch_vars, repo_vars, override_vars, option_vars, resolve_vars, loaded_vars, current_vars, collect_vars, probe_vars>>
other_than_lookup == <<store_vars, rewriter_vars, exports_vars, exec_vars, fetch_vars, repo_vars, override_vars, option_vars, resolve_vars, loaded_vars, current_vars, collect_vars, probe_vars>>
other_than_exports == <<store_vars, rewriter_vars, lookup_vars, exec_vars, fetch_vars, repo_vars, override_vars, option_vars, resolve_vars, loaded_vars, current_vars, collect_vars, probe_vars>>
other_than_exec == <<store_vars, rewriter_vars, lookup_vars, exports_vars, fetch_vars, repo_vars, override_vars, option_vars, resolve_vars, loaded_vars, current_vars, collect_vars, probe_vars>>
other_than_fetch == <<store_vars, rewriter_vars, lookup_vars, exports_vars, exec_vars, repo_vars, override_vars, option_vars, resolve_vars, loaded_vars, current_vars, collect_vars, probe_vars>>
other_than_repo == <<store_vars, rewriter_vars, lookup_vars, exports_vars, exec_vars, fetch_vars, override_vars, option_vars, resolve_vars, loaded_vars, current_vars, collect_vars, probe_vars>>
other_than_override == <<store_vars, rewriter_vars, lookup_vars, exports_vars, exec_vars, fetch_vars, repo_vars, option_vars, resolve_vars, loaded_vars, current_vars, collect_vars, probe_vars>>
other_than_option == <<store_vars, rewriter_vars, lookup_vars, exports_vars, exec_vars, fetch_vars, repo_vars, override_vars, resolve_vars, loaded_vars, current_vars, collect_vars, probe_vars>>
other_than_resolve == <<store_vars, rewriter_vars, lookup_vars, exports_vars, exec_vars, fetch_vars, repo_vars, override_vars, option_vars, loaded_vars, current_vars, collect_vars, probe_vars>>
other_than_loaded == <<store_vars, rewriter_vars, lookup_vars, exports_vars, exec_vars, fetch_vars, repo_vars, override_vars, option_vars, resolve_vars, current_vars, collect_vars, probe_vars>>
other_than_current == <<store_vars, rewriter_vars, lookup_vars, exports_vars, exec_vars, fetch_vars, repo_vars, override_vars, option_vars, resolve_vars, loaded_vars, collect_vars, probe_vars>>
other_than_lookup_and_current == <<store_vars, rewriter_vars, exports_vars, exec_vars, fetch_vars, repo_vars, override_vars, option_vars, resolve_vars, loaded_vars, collect_vars, probe_vars>>
other_than_collect == <<store_vars, rewriter_vars, lookup_vars, exports_vars, exec_vars, fetch_vars, repo_vars, override_vars, option_vars, resolve_vars, loaded_vars, current_vars, probe_vars>>
other_than_probe == <<store_vars, rewriter_vars, lookup_vars, exports_vars, exec_vars, fetch_vars, repo_vars, override_vars, option_vars, resolve_vars, loaded_vars, current_vars, collect_vars>>

\* ------------------------------------------------------------ file system
NoCheckout == [sum |-> Absent, where |-> "none", tree |-> FALSE, ref |-> -1, export |-> "none"]
Gone == [sum |-> Absent, where |-> "deleted", tree |-> FALSE, ref |-> -1, export |-> "none"]

\* Content of the commit with checksum c (commits are content-addressed):
\* the size of a files/.ref shipped in the tree (-1: none) and whether the
\* tree has an export/ subtree.
CommitRefSize(c) == IF c % 2 = 0 THEN 1 ELSE -1
CommitHasExport(c) == c % 2 = 1

\* The checkout a successful deploy of checksum c leaves.
Deployed(c) ==
  [sum |-> c, where |-> "base", tree |-> TRUE, ref |-> 0,
   export |-> IF CommitHasExport(c) THEN "rewritten" ELSE "none"]

\* The id of the directory <deploy-base>/<c>/, Absent when there is none.
DirAt(c) ==
  IF \E i \in Ids : checkouts[i].where = "base" /\ checkouts[i].sum = c
  THEN CHOOSE i \in Ids : checkouts[i].where = "base" /\ checkouts[i].sum = c
  ELSE Absent

\* g_file_query_exists (checkoutdir)
query_exists(c) == DirAt(c) # Absent

\* The next unused directory identity.
FreeIds == {i \in Ids : checkouts[i].where = "none"}
NextId == CHOOSE i \in FreeIds : \A j \in FreeIds : i <= j

\* Entries of <base>/.removed/.
RemovedEntries == {i \in Ids : checkouts[i].where = "removed"}

\* Some process holds the lock on files/.ref of checkout i.
LockHeld(i) == ref_lock[i]

\* ------------------------------------------------------------ processes
Idle == [pc |-> "idle", op |-> "none", sum |-> Absent, force |-> FALSE,
         target |-> Absent, wasActive |-> FALSE, mine |-> Absent,
         locked |-> FALSE, todo |-> {}, ret |-> "none", hadDir |-> FALSE,
         rev |-> <<>>]

Return(p, r) == [proc[p] EXCEPT !.pc = "done", !.ret = r, !.target = Absent]

\* A store with nothing deployed.
StoreInit ==
  /\ checkouts = [i \in Ids |-> NoCheckout]
  /\ active = Absent
  /\ removed_dir = FALSE
  /\ proc = [p \in Procs |-> Idle]
  /\ ref_lock = [i \in Ids |-> FALSE]

\* The caller takes the result and the process is free for the next call.
finish(p) ==
  /\ proc[p].pc = "done"
  /\ proc' = [proc EXCEPT ![p] = Idle]
  /\ UNCHANGED <<checkouts, active, removed_dir, ref_lock>>
  /\ UNCHANGED other_than_store

\* ------------------------------------------------------------ set-active
\* A replacement that is not atomic: an existing `active` is unlinked and
\* the new one is not in place yet.
gs_file_rename_torn(old, target) == IF old = Absent THEN target ELSE Absent

\* rename (2) of the temporary symlink over `active`.
gs_file_rename_over(old, target) == target

\* g_file_delete of `active`; a missing file is not an error.
g_file_delete_active(old) == Absent

\* xdg_app_dir_set_active (ref, checksum) called directly.
set_active_call(p) ==
  /\ proc[p].pc = "idle"
  /\ \E c \in Checksums \cup {Absent} :
       proc' = [proc EXCEPT ![p] = [Idle EXCEPT !.pc = IF c = Absent THEN "sa_unlink" ELSE "sa_symlink",
                                                !.op = "set_active", !.sum = c, !.target = c,
                                                !.wasActive = (active = c)]]
  /\ UNCHANGED <<checkouts, active, removed_dir, ref_lock>>
  /\ UNCHANGED other_than_store

\* Where the caller of set_active goes on when it returned TRUE.
AfterSetActive(p) ==
  IF proc[p].op = "undeploy" THEN [proc[p] EXCEPT !.pc = "ud_ensure_removed"]
  ELSE Return(p, "ok")

\* g_file_make_symbolic_link (.active-XXXXXX -> checksum)
set_active_symlink(p) ==
  /\ proc[p].pc = "sa_symlink"
  /\ \/ proc' = [proc EXCEPT ![p].pc = "sa_rename"]
     \/ proc' = [proc EXCEPT ![p] = Return(p, "error")]
  /\ UNCHANGED <<checkouts, active, removed_dir, ref_lock>>
  /\ UNCHANGED other_than_store

\* gs_file_rename (active_tmp_link, active_link)
set_active_rename(p) ==
  /\ proc[p].pc = "sa_rename"
  /\ \/ /\ active' = gs_file_rename_over(active, proc[p].target)
        /\ proc' = [proc EXCEPT ![p] = AfterSetActive(p)]
     \/ /\ proc' = [proc EXCEPT ![p] = Return(p, "error")]
        /\ UNCHANGED active
  /\ UNCHANGED <<checkouts, removed_dir, ref_lock>>
  /\ UNCHANGED other_than_store

\* An unlink of `active` that takes NOT_FOUND for a failure.
set_active_unlink_strict(p) ==
  /\ proc[p].pc = "sa_unlink"
  /\ \/ /\ active # Absent
        /\ active' = g_file_delete_active(active)
        /\ proc' = [proc EXCEPT ![p] = AfterSetActive(p)]
     \/ /\ proc' = [proc EXCEPT ![p] = Return(p, "error")]
        /\ UNCHANGED active
  /\ UNCHANGED <<checkouts, removed_dir, ref_lock>>
  /\ UNCHANGED other_than_store

\* checksum == NULL: g_file_delete (active_link), NOT_FOUND ignored
set_active_unlink(p) ==
  /\ proc[p].pc = "sa_unlink"
  /\ \/ /\ active' = g_file_delete_active(active)
        /\ proc' = [proc EXCEPT ![p] = AfterSetActive(p)]
     \/ /\ active # Absent
        /\ proc' = [proc EXCEPT ![p] = Return(p, "error")]
        /\ UNCHANGED active
  /\ UNCHANGED <<checkouts, removed_dir, ref_lock>>
  /\ UNCHANGED other_than_store

\* ------------------------------------------------------------ Launcher Rewriter
\* A file name of export/: whether xdg_app_has_name_prefix (name, app)
\* holds for it and what it ends in.
FileNames == [prefixed : BOOLEAN, suffix : {"desktop", "service", "other"}]

\* The name gs_file_open_in_tmpdir_at gives the transformed file.
TmpName == [prefixed |-> FALSE, suffix |-> "tmp"]

\* The name of the subdirectory of export/.
SubName == [prefixed |-> TRUE, suffix |-> "dir"]

AllNames == FileNames \cup {TmpName, SubName}

\* export/ and its subdirectory.
Dirs == {"top", "sub"}

\* What g_key_file_load_from_data makes of a regular file: whether it
\* parses, how Name of [D-BUS Service] compares with the file's name
\* without suffix, and how many times Exec was wrapped in the launcher.
KeyFiles ==
  {[valid |-> FALSE, dbus_name |-> "none", wraps |-> 0]}
  \cup [valid : {TRUE}, dbus_name : {"none", "same", "other"}, wraps : {0}]

NoKeyFile == [valid |-> FALSE, dbus_name |-> "none", wraps |-> -1]

\* Directory entries by st_mode.
Missing == [type |-> "none", data |-> NoKeyFile]
Directory == [type |-> "dir", data |-> NoKeyFile]
Special == [type |-> "other", data |-> NoKeyFile]
RegFile(k) == [type |-> "reg", data |-> k]

\* The entries a regular or special file of export/ starts as.
FileEntries == {RegFile(k) : k \in KeyFiles} \cup {Special}

\* export_desktop_file (name): "ok", or the error it fails with.  The file
\* is opened by name, parsed, and a .service file must name itself.
export_desktop_file(name, e) ==
  IF e.type # "reg" THEN "ENOENT"
  ELSE IF ~e.data.valid THEN "error"
  ELSE IF name.suffix = "service" /\ e.data.dbus_name # "same" THEN "wrong name"
  ELSE "ok"

\* The key file written to the temporary file: every group's Exec wrapped.
Wrapped(k) == [k EXCEPT !.wraps = @ + 1]

\* rewrite_export_dir on a regular file: the unlink of a file that is not
\* prefixed, then, for a .desktop or .service name, export_desktop_file
\* and the rename of the temporary file over the name.
rewrite_file(name, e) ==
  LET left == IF name.prefixed THEN e ELSE Missing
      res == export_desktop_file(name, left)
  IN IF name.suffix \notin {"desktop", "service"}
     THEN [ret |-> "ok", entry |-> left, transformed |-> FALSE]
     ELSE IF res = "ok"
          THEN [ret |-> "ok", entry |-> RegFile(Wrapped(left.data)), transformed |-> TRUE]
          ELSE [ret |-> res, entry |-> left, transformed |-> FALSE]

\* A directory iterator over d: the names readdir has still to return and
\* the names already processed.
Frame(d) ==
  [dir |-> d, visited |-> {}, pending |-> {n \in AllNames : export_dir[d][n] # Missing}]

\* No d_name yet.
NoName == [prefixed |-> FALSE, suffix |-> "none"]

RwIdle == [pc |-> "idle", stack |-> <<>>, dent |-> NoName, ret |-> "none"]
RwDone(r, n) == [pc |-> "done", stack |-> <<>>, dent |-> n, ret |-> r]

\* xdg_app_rewrite_export_dir (export): glnx_dirfd_iterator_init_at.
rewrite_call ==
  /\ rw.pc = "idle"
  /\ \/ rw' = [RwIdle EXCEPT !.pc = "walk", !.stack = <<Frame("top")>>]
     \/ rw' = RwDone("error", NoName)
  /\ UNCHANGED <<export_dir, other_than_rewriter>>

\* glnx_dirfd_iterator_next_dent returns NULL: the walk of this directory
\* is over and rewrite_export_dir returns TRUE to its caller.
rewrite_end_of_dir ==
  /\ rw.pc = "walk"
  /\ rw.stack[Len(rw.stack)].pending = {}
  /\ rw' = IF Len(rw.stack) = 1 THEN RwDone("ok", NoName)
           ELSE [rw EXCEPT !.stack = SubSeq(@, 1, Len(@) - 1), !.dent = NoName]
  /\ UNCHANGED <<export_dir, other_than_rewriter>>

\* A walk that keeps no record of the names it has processed.
rewrite_dent_again(n) ==
  /\ rw.pc = "walk"
  /\ LET top == Len(rw.stack)
         fr == rw.stack[top]
         d == fr.dir
         e == export_dir[d][n]
         seen == [fr EXCEPT !.pending = @ \ {n}, !.visited = @ \cup {n}]
     IN
     /\ n \in fr.pending
     /\ IF e = Missing
        THEN \* fstatat gives ENOENT
             /\ rw' = [rw EXCEPT !.stack[top] = seen, !.dent = n]
             /\ UNCHANGED export_dir
        ELSE
        \/ /\ e.type = "dir"
           /\ d = "top"
           /\ rw' = [rw EXCEPT !.stack = Append([@ EXCEPT ![top] = seen], Frame("sub")),
                               !.dent = n]
           /\ UNCHANGED export_dir
        \/ /\ e.type = "reg"
           /\ LET r == rewrite_file(n, e) IN
              /\ export_dir' = [export_dir EXCEPT ![d][n] = r.entry]
              /\ IF r.ret # "ok" THEN rw' = RwDone(r.ret, n)
                 ELSE IF ~r.transformed THEN rw' = [rw EXCEPT !.stack[top] = seen, !.dent = n]
                 ELSE \* the name of the temporary file is visited too; readdir
                      \* may return it, and the name renamed over, later
                      \E again \in SUBSET {n, TmpName} :
                        rw' = [rw EXCEPT !.dent = n,
                                         !.stack[top] =
                                           [seen EXCEPT !.visited = @ \cup {TmpName},
                                                        !.pending = @ \cup again]]
        \/ /\ e.type = "other"
           /\ export_dir' = [export_dir EXCEPT ![d][n] = Missing]
           /\ rw' = [rw EXCEPT !.stack[top] = seen, !.dent = n]
        \/ \* fstatat, unlinkat, a read or write of export_desktop_file,
           \* renameat or the iterator of the subdirectory fails
           /\ rw' = RwDone("error", n)
           /\ UNCHANGED export_dir
  /\ UNCHANGED other_than_rewriter

\* glnx_dirfd_iterator_next_dent returns the name n, which is processed.
rewrite_dent(n) ==
  /\ rw.pc = "walk"
  /\ LET top == Len(rw.stack)
         fr == rw.stack[top]
         d == fr.dir
         e == export_dir[d][n]
         seen == [fr EXCEPT !.pending = @ \ {n}, !.visited = @ \cup {n}]
     IN
     /\ n \in fr.pending
     /\ IF n \in fr.visited \/ e = Missing
        THEN \* visited_children contains the name, or fstatat gives ENOENT
             /\ rw' = [rw EXCEPT !.stack[top] = seen, !.dent = n]
             /\ UNCHANGED export_dir
        ELSE
        \/ /\ e.type = "dir"
           /\ d = "top"
           /\ rw' = [rw EXCEPT !.stack = Append([@ EXCEPT ![top] = seen], Frame("sub")),
                               !.dent = n]
           /\ UNCHANGED export_dir
        \/ /\ e.type = "reg"
           /\ LET r == rewrite_file(n, e) IN
              /\ export_dir' = [export_dir EXCEPT ![d][n] = r.entry]
              /\ IF r.ret # "ok" THEN rw' = RwDone(r.ret, n)
                 ELSE IF ~r.transformed THEN rw' = [rw EXCEPT !.stack[top] = seen, !.dent = n]
                 ELSE \* the name of the temporary file is visited too; readdir
                      \* may return it, and the name renamed over, later
                      \E again \in SUBSET {n, TmpName} :
                        rw' = [rw EXCEPT !.dent = n,
                                         !.stack[top] =
                                           [seen EXCEPT !.visited = @ \cup {TmpName},
                                                        !.pending = @ \cup again]]
        \/ /\ e.type = "other"
           /\ export_dir' = [export_dir EXCEPT ![d][n] = Missing]
           /\ rw' = [rw EXCEPT !.stack[top] = seen, !.dent = n]
        \/ \* fstatat, unlinkat, a read or write of export_desktop_file,
           \* renameat or the iterator of the subdirectory fails
           /\ rw' = RwDone("error", n)
           /\ UNCHANGED export_dir
  /\ UNCHANGED other_than_rewriter

\* ------------------------------------------------------------ deploy
\* xdg_app_dir_deploy (ref, checksum): the checksum is the one supplied or
\* the one the ref resolves to.  The call starts with ensure-repo, then
\* resolve-rev of the ref (no checksum given) or read-commit and, when the
\* commit is not local, the read of `origin` and the pull of the checksum:
\* calls into the object store, which fail or succeed.
deploy_call(p) ==
  /\ proc[p].pc = "idle"
  /\ \E c \in Checksums :
       LET called == [Idle EXCEPT !.op = "deploy", !.sum = c, !.target = c,
                                  !.hadDir = query_exists(c)] IN
       \/ proc' = [proc EXCEPT ![p] = [called EXCEPT !.pc = "dp_exists"]]
       \/ proc' = [proc EXCEPT ![p] = [called EXCEPT !.pc = "done", !.ret = "error"]]
  /\ UNCHANGED <<checkouts, active, removed_dir, ref_lock>>
  /\ UNCHANGED other_than_store

\* The ref being deployed and the revisions the object store may hold for
\* it: the branch of a remote, or the ref with no remote named.
RefName == "ref"
RemoteNames == {"r1", "r2"}
NoOrigin == "NULL"
Revisions == {<<r, ":", RefName>> : r \in RemoteNames} \cup {<<RefName>>}

\* xdg_app_dir_get_origin: the content of `origin`, NULL when the deploy
\* base or the file is missing or unreadable.
xdg_app_dir_get_origin == origin_file

\* A revision that never names the origin.
origin_and_ref_bare(origin) == <<RefName>>

\* g_strdup_printf ("%s:%s", origin, ref), or the ref alone without origin.
origin_and_ref(origin) ==
  IF origin # NoOrigin THEN <<origin, ":", RefName>> ELSE <<RefName>>

\* ostree_repo_resolve_rev (repo, rev, FALSE): the commit, or failure.
ostree_repo_resolve_rev(rev) == repo_refs[rev]

\* xdg_app_dir_deploy (ref, NULL): ensure-repo, then the tip of the ref is
\* resolved and the deploy goes on with it as with a supplied checksum.
deploy_tip_call(p) ==
  /\ proc[p].pc = "idle"
  /\ LET rev == origin_and_ref(xdg_app_dir_get_origin)
         c == ostree_repo_resolve_rev(rev)
         called == [Idle EXCEPT !.op = "deploy", !.rev = rev, !.sum = c, !.target = c,
                                !.hadDir = (c # Absent /\ query_exists(c))] IN
     \/ /\ c # Absent
        /\ proc' = [proc EXCEPT ![p] = [called EXCEPT !.pc = "dp_exists"]]
     \/ /\ c = Absent
        /\ proc' = [proc EXCEPT ![p] = [called EXCEPT !.pc = "done", !.ret = "error"]]
     \/ proc' = [proc EXCEPT ![p] = [Idle EXCEPT !.op = "deploy", !.pc = "done", !.ret = "error"]]
  /\ UNCHANGED <<checkouts, active, removed_dir, ref_lock>>
  /\ UNCHANGED other_than_store

\* A deploy that does not look for an existing checkout directory.
deploy_query_exists_skipped(p) ==
  /\ proc[p].pc = "dp_exists"
  /\ \/ proc' = [proc EXCEPT ![p].pc = "dp_mkdir"]
     \/ proc' = [proc EXCEPT ![p] = Return(p, "error")]
  /\ UNCHANGED <<checkouts, active, removed_dir, ref_lock>>
  /\ UNCHANGED other_than_store

\* g_file_query_exists (checkoutdir), then read-commit and query-info of the root.
deploy_query_exists(p) ==
  /\ proc[p].pc = "dp_exists"
  /\ IF query_exists(proc[p].sum)
     THEN proc' = [proc EXCEPT ![p] = Return(p, "ALREADY_DEPLOYED")]
     ELSE \/ proc' = [proc EXCEPT ![p].pc = "dp_mkdir"]
          \/ proc' = [proc EXCEPT ![p] = Return(p, "error")]
  /\ UNCHANGED <<checkouts, active, removed_dir, ref_lock>>
  /\ UNCHANGED other_than_store

\* ostree_repo_checkout_tree, OVERWRITE_NONE: the destination directory is
\* made first and must not exist.
deploy_checkout_mkdir(p) ==
  /\ proc[p].pc = "dp_mkdir"
  /\ \/ /\ ~query_exists(proc[p].sum)
        /\ FreeIds # {}
        /\ checkouts' = [checkouts EXCEPT ![NextId] =
                           [NoCheckout EXCEPT !.sum = proc[p].sum, !.where = "base"]]
        /\ proc' = [proc EXCEPT ![p].pc = "dp_checkout", ![p].mine = NextId]
     \/ /\ proc' = [proc EXCEPT ![p] = Return(p, "error")]
        /\ UNCHANGED checkouts
  /\ UNCHANGED <<active, removed_dir, ref_lock>>
  /\ UNCHANGED other_than_store

\* The checked-out tree of a commit.
CheckedOut(co) ==
  [co EXCEPT !.tree = TRUE, !.ref = CommitRefSize(co.sum),
             !.export = IF CommitHasExport(co.sum) THEN "raw" ELSE "none"]

\* ostree_repo_checkout_tree fills the directory it made (through its
\* descriptor, wherever the directory has been renamed to) or fails midway.
deploy_checkout_tree(p) ==
  /\ proc[p].pc = "dp_checkout"
  /\ \/ /\ checkouts[proc[p].mine].where \in {"base", "removed"}
        /\ checkouts' = [checkouts EXCEPT ![proc[p].mine] = CheckedOut(@)]
        /\ proc' = [proc EXCEPT ![p].pc = "dp_ref"]
     \/ /\ proc' = [proc EXCEPT ![p] = Return(p, "error")]
        /\ UNCHANGED checkouts
  /\ UNCHANGED <<active, removed_dir, ref_lock>>
  /\ UNCHANGED other_than_store

\* A write that leaves a files/.ref shipped in the commit as it is.
keep_existing_ref(co) == IF co.ref >= 0 THEN co ELSE [co EXCEPT !.ref = 0]

\* g_file_replace_contents (files/.ref, "", 0)
replace_contents_ref(co) == [co EXCEPT !.ref = 0]

\* The write of files/.ref, by path: it lands in whatever directory is at
\* <deploy-base>/<checksum>/ now and needs its files/ directory.
deploy_write_ref(p) ==
  /\ proc[p].pc = "dp_ref"
  /\ LET d == DirAt(proc[p].sum) IN
     \/ /\ d # Absent
        /\ checkouts[d].tree
        /\ checkouts' = [checkouts EXCEPT ![d] = replace_contents_ref(@)]
        /\ proc' = [proc EXCEPT ![p].pc = "dp_export"]
     \/ /\ proc' = [proc EXCEPT ![p] = Return(p, "error")]
        /\ UNCHANGED checkouts
  /\ UNCHANGED <<active, removed_dir, ref_lock>>
  /\ UNCHANGED other_than_store

\* A deploy that repoints `active` before the Launcher Rewriter has run.
deploy_rewrite_export_late(p) ==
  /\ proc[p].pc = "dp_export"
  /\ LET d == DirAt(proc[p].sum) IN
     /\ d # Absent
     /\ active' = proc[p].sum
     /\ \/ /\ checkouts' = [checkouts EXCEPT ![d].export = IF @ = "none" THEN @ ELSE "rewritten"]
           /\ proc' = [proc EXCEPT ![p] = Return(p, "ok")]
        \/ /\ checkouts[d].export # "none"
           /\ checkouts' = [checkouts EXCEPT ![d].export = "broken"]
           /\ proc' = [proc EXCEPT ![p] = Return(p, "wrong name")]
  /\ UNCHANGED <<removed_dir, ref_lock>>
  /\ UNCHANGED other_than_store

\* g_file_query_exists (export) and xdg_app_rewrite_export_dir over it:
\* the Launcher Rewriter finishes, or fails having rewritten some files.
\* The export/ of the commit holds some regular file, rewritten as
\* rewrite_file does.
deploy_rewrite_export(p) ==
  /\ proc[p].pc = "dp_export"
  /\ LET d == DirAt(proc[p].sum) IN
     IF d = Absent \/ checkouts[d].export = "none"
     THEN /\ proc' = [proc EXCEPT ![p].pc = "sa_symlink"]
          /\ UNCHANGED checkouts
     ELSE \/ \E n \in FileNames, k \in KeyFiles :
               LET r == rewrite_file(n, RegFile(k)) IN
               IF r.ret = "ok"
               THEN /\ checkouts' = [checkouts EXCEPT ![d].export = "rewritten"]
                    /\ proc' = [proc EXCEPT ![p].pc = "sa_symlink"]
               ELSE /\ checkouts' = [checkouts EXCEPT ![d].export = "broken"]
                    /\ proc' = [proc EXCEPT ![p] = Return(p, r.ret)]
          \/ /\ checkouts' = [checkouts EXCEPT ![d].export = "broken"]
             /\ proc' = [proc EXCEPT ![p] = Return(p, "error")]
  /\ UNCHANGED <<active, removed_dir, ref_lock>>
  /\ UNCHANGED other_than_store

\* ------------------------------------------------------------ liveness lock
\* What can fail in a probe of files/.ref: open (2) of a file that is
\* there, or fcntl (F_GETLK) on it.
ProbeFaults == {"none", "open", "getlk"}

\* A probe that takes a files/.ref it cannot query for locked.
dir_is_locked_on_fault(i) ==
  /\ checkouts[i].where = "removed"
  /\ checkouts[i].ref >= 0
  /\ ref_fault[i] # "none" \/ LockHeld(i)

\* dir_is_locked (dir): files/.ref of the directory can be opened,
\* F_GETLK succeeds and reports a lock of another process.
dir_is_locked(i) ==
  /\ checkouts[i].where = "removed"
  /\ checkouts[i].ref >= 0
  /\ ref_fault[i] # "open"
  /\ ref_fault[i] # "getlk"
  /\ LockHeld(i)

\* gs_shutil_rm_rf of an entry of .removed/; a missing entry is left missing.
gs_shutil_rm_rf(i) ==
  IF checkouts[i].where = "removed" THEN [checkouts EXCEPT ![i] = Gone] ELSE checkouts

\* Nothing reaches files/.ref of a deleted checkout any more: what the
\* applications that still have it open do with it is not followed further.
Forget(i) == [ref_lock EXCEPT ![i] = FALSE]

\* ------------------------------------------------------------ undeploy
\* An undeploy that does not look for the checkout directory first.
undeploy_call_unchecked(p) ==
  /\ proc[p].pc = "idle"
  /\ \E c \in Checksums, f \in BOOLEAN :
       LET called == [Idle EXCEPT !.op = "undeploy", !.sum = c, !.force = f] IN
       \/ proc' = [proc EXCEPT ![p] = [called EXCEPT !.pc = "ud_read"]]
       \/ proc' = [proc EXCEPT ![p] = [called EXCEPT !.pc = "done", !.ret = "error"]]
  /\ UNCHANGED <<checkouts, active, removed_dir, ref_lock>>
  /\ UNCHANGED other_than_store

\* xdg_app_dir_undeploy (ref, checksum, force_remove), up to its first
\* read of `active`: g_file_query_exists (checkoutdir), then ensure-repo.
undeploy_call(p) ==
  /\ proc[p].pc = "idle"
  /\ \E c \in Checksums, f \in BOOLEAN :
       LET called == [Idle EXCEPT !.op = "undeploy", !.sum = c, !.force = f] IN
       IF ~query_exists(c)
       THEN proc' = [proc EXCEPT ![p] = [called EXCEPT !.pc = "done", !.ret = "ALREADY_UNDEPLOYED"]]
       ELSE \/ proc' = [proc EXCEPT ![p] = [called EXCEPT !.pc = "ud_read"]]
            \/ proc' = [proc EXCEPT ![p] = [called EXCEPT !.pc = "done", !.ret = "error"]]
  /\ UNCHANGED <<checkouts, active, removed_dir, ref_lock>>
  /\ UNCHANGED other_than_store

\* An undeploy that does not repoint `active`.
undeploy_read_active_only(p) ==
  /\ proc[p].pc = "ud_read"
  /\ proc' = [proc EXCEPT ![p].wasActive = (active = proc[p].sum),
                          ![p].pc = "ud_ensure_removed"]
  /\ UNCHANGED <<checkouts, active, removed_dir, ref_lock>>
  /\ UNCHANGED other_than_store

\* An undeploy that repoints `active` whatever it names.
undeploy_read_active_always(p) ==
  /\ proc[p].pc = "ud_read"
  /\ proc' = [proc EXCEPT ![p].wasActive = (active = proc[p].sum),
                          ![p].pc = "ud_list"]
  /\ UNCHANGED <<checkouts, active, removed_dir, ref_lock>>
  /\ UNCHANGED other_than_store

\* active = xdg_app_dir_read_active (); strcmp (active, checksum) == 0
undeploy_read_active(p) ==
  /\ proc[p].pc = "ud_read"
  /\ proc' = [proc EXCEPT ![p].wasActive = (active = proc[p].sum),
                          ![p].pc = IF active = proc[p].sum THEN "ud_list" ELSE "ud_ensure_removed"]
  /\ UNCHANGED <<checkouts, active, removed_dir, ref_lock>>
  /\ UNCHANGED other_than_store

\* xdg_app_dir_list_deployed: the directories of the deploy base.
list_deployed == {c \in Checksums : query_exists(c)}

\* A choice that does not skip the checksum being removed.
any_deployment(sum) == list_deployed

\* The deployments the loop over deployed_checksums may stop at: the first
\* one, in enumeration order, that is not the checksum being removed.
some_deployment(sum) == list_deployed \ {sum}

\* list-deployed and the choice of some_deployment, NULL when there is none.
undeploy_list_deployed(p) ==
  /\ proc[p].pc = "ud_list"
  /\ \/ /\ some_deployment(proc[p].sum) = {}
        /\ proc' = [proc EXCEPT ![p].target = Absent, ![p].pc = "sa_unlink"]
     \/ \E c \in some_deployment(proc[p].sum) :
          proc' = [proc EXCEPT ![p].target = c, ![p].pc = "sa_symlink"]
     \/ proc' = [proc EXCEPT ![p] = Return(p, "error")]
  /\ UNCHANGED <<checkouts, active, removed_dir, ref_lock>>
  /\ UNCHANGED other_than_store

\* An undeploy that points `active` back at its checksum when .removed/
\* cannot be made.
undeploy_ensure_removed_rollback(p) ==
  /\ proc[p].pc = "ud_ensure_removed"
  /\ \/ /\ removed_dir' = TRUE
        /\ proc' = [proc EXCEPT ![p].pc = "ud_rename"]
        /\ UNCHANGED active
     \/ /\ proc' = [proc EXCEPT ![p] = Return(p, "error")]
        /\ active' = IF proc[p].wasActive THEN proc[p].sum ELSE active
        /\ UNCHANGED removed_dir
  /\ UNCHANGED <<checkouts, ref_lock>>
  /\ UNCHANGED other_than_store

\* gs_file_ensure_directory (removed_dir)
undeploy_ensure_removed(p) ==
  /\ proc[p].pc = "ud_ensure_removed"
  /\ \/ /\ removed_dir' = TRUE
        /\ proc' = [proc EXCEPT ![p].pc = "ud_rename"]
     \/ /\ proc' = [proc EXCEPT ![p] = Return(p, "error")]
        /\ UNCHANGED removed_dir
  /\ UNCHANGED <<checkouts, active, ref_lock>>
  /\ UNCHANGED other_than_store

\* gs_file_rename (checkoutdir, <base>/.removed/<random>-<checksum>)
undeploy_rename(p) ==
  /\ proc[p].pc = "ud_rename"
  /\ LET d == DirAt(proc[p].sum) IN
     \/ /\ d # Absent
        /\ checkouts' = [checkouts EXCEPT ![d].where = "removed"]
        /\ proc' = [proc EXCEPT ![p].mine = d,
                                ![p].pc = IF proc[p].force THEN "ud_rm" ELSE "ud_probe"]
     \/ /\ proc' = [proc EXCEPT ![p] = Return(p, "error")]
        /\ UNCHANGED checkouts
  /\ UNCHANGED <<active, removed_dir, ref_lock>>
  /\ UNCHANGED other_than_store

\* An undeploy that probes the lock and deletes whatever the probe said.
undeploy_probe_ignored(p) ==
  /\ proc[p].pc = "ud_probe"
  /\ proc' = [proc EXCEPT ![p].locked = dir_is_locked(proc[p].mine), ![p].pc = "ud_rm"]
  /\ UNCHANGED <<checkouts, active, removed_dir, ref_lock>>
  /\ UNCHANGED other_than_store

\* force_remove is unset: !dir_is_locked (removed_subdir)
undeploy_probe(p) ==
  /\ proc[p].pc = "ud_probe"
  /\ proc' = [proc EXCEPT ![p] =
       IF dir_is_locked(proc[p].mine)
       THEN [Return(p, "ok") EXCEPT !.locked = TRUE]
       ELSE [proc[p] EXCEPT !.pc = "ud_rm"]]
  /\ UNCHANGED <<checkouts, active, removed_dir, ref_lock>>
  /\ UNCHANGED other_than_store

\* gs_shutil_rm_rf (removed_subdir)
undeploy_rm_rf(p) ==
  /\ proc[p].pc = "ud_rm"
  /\ checkouts' = gs_shutil_rm_rf(proc[p].mine)
  /\ ref_lock' = Forget(proc[p].mine)
  /\ proc' = [proc EXCEPT ![p] = Return(p, "ok")]
  /\ UNCHANGED <<active, removed_dir>>
  /\ UNCHANGED other_than_store

\* ------------------------------------------------------------ cleanup-removed
\* xdg_app_dir_cleanup_removed, up to its loop: g_file_query_exists
\* (removed_dir), a missing directory being a success, and
\* g_file_enumerate_children.
cleanup_call(p) ==
  /\ proc[p].pc = "idle"
  /\ LET called == [Idle EXCEPT !.op = "cleanup_removed"] IN
     IF ~removed_dir
     THEN proc' = [proc EXCEPT ![p] = [called EXCEPT !.pc = "done", !.ret = "ok"]]
     ELSE \/ proc' = [proc EXCEPT ![p] = [called EXCEPT !.pc = "cl_next", !.todo = RemovedEntries]]
          \/ proc' = [proc EXCEPT ![p] = [called EXCEPT !.pc = "done", !.ret = "error"]]
  /\ UNCHANGED <<checkouts, active, removed_dir, ref_lock>>
  /\ UNCHANGED other_than_store

\* A cleanup that deletes every child without probing its lock.
cleanup_probe_blind(p, e) ==
  /\ proc[p].pc = "cl_next"
  /\ e \in proc[p].todo
  /\ proc' = [proc EXCEPT ![p].todo = @ \ {e}, ![p].mine = e, ![p].locked = FALSE,
                          ![p].pc = "cl_rm"]
  /\ UNCHANGED <<checkouts, active, removed_dir, ref_lock>>
  /\ UNCHANGED other_than_store

\* g_file_enumerator_next_file returns the child e, which is probed.
cleanup_probe(p, e) ==
  /\ proc[p].pc = "cl_next"
  /\ e \in proc[p].todo
  /\ proc' = [proc EXCEPT ![p].todo = @ \ {e},
                          ![p].mine = e,
                          ![p].locked = dir_is_locked(e),
                          ![p].pc = IF dir_is_locked(e) THEN "cl_next" ELSE "cl_rm"]
  /\ UNCHANGED <<checkouts, active, removed_dir, ref_lock>>
  /\ UNCHANGED other_than_store

\* g_file_enumerator_next_file: the next child, the end of the directory
\* or an error.
cleanup_next(p) ==
  /\ proc[p].pc = "cl_next"
  /\ \/ /\ proc[p].todo = {}
        /\ proc' = [proc EXCEPT ![p] = [Return(p, "ok") EXCEPT !.mine = Absent, !.locked = FALSE]]
     \/ \E e \in proc[p].todo : cleanup_probe(p, e)
     \/ proc' = [proc EXCEPT ![p] = [Return(p, "error") EXCEPT !.mine = Absent, !.locked = FALSE]]
  /\ UNCHANGED <<checkouts, active, removed_dir, ref_lock>>
  /\ UNCHANGED other_than_store

\* A cleanup that gives up when the child it set out to delete is no
\* longer there.
cleanup_rm_rf_strict(p) ==
  /\ proc[p].pc = "cl_rm"
  /\ checkouts' = gs_shutil_rm_rf(proc[p].mine)
  /\ ref_lock' = Forget(proc[p].mine)
  /\ proc' = IF checkouts[proc[p].mine].where = "removed"
             THEN [proc EXCEPT ![p].pc = "cl_next"]
             ELSE [proc EXCEPT ![p] = [Return(p, "error") EXCEPT !.mine = Absent]]
  /\ UNCHANGED <<active, removed_dir>>
  /\ UNCHANGED other_than_store

\* gs_shutil_rm_rf (child)
cleanup_rm_rf(p) ==
  /\ proc[p].pc = "cl_rm"
  /\ checkouts' = gs_shutil_rm_rf(proc[p].mine)
  /\ ref_lock' = Forget(proc[p].mine)
  /\ proc' = [proc EXCEPT ![p].pc = "cl_next"]
  /\ UNCHANGED <<active, removed_dir>>
  /\ UNCHANGED other_than_store

\* ------------------------------------------------------------ applications
\* A running application holds the lock on files/.ref of its checkout.  It
\* opened the file under <deploy-base>/ and takes the lock on the open
\* file, wherever the directory has been renamed to by then.
app_lock(i) ==
  /\ checkouts[i].where \in {"base", "removed"}
  /\ checkouts[i].ref >= 0
  /\ ~ref_lock[i]
  /\ ref_lock' = [ref_lock EXCEPT ![i] = TRUE]
  /\ UNCHANGED <<checkouts, active, removed_dir, proc>>
  /\ UNCHANGED other_than_store

\* The application exits and its lock is released.
app_exit(i) ==
  /\ ref_lock[i]
  /\ ref_lock' = [ref_lock EXCEPT ![i] = FALSE]
  /\ UNCHANGED <<checkouts, active, removed_dir, proc>>
  /\ UNCHANGED other_than_store

\* ------------------------------------------------------------ lookups
\* File names as strings of character codes.
Slash == <<47>>
NameA == <<97>>
NameAB == <<97, 46, 98>>
NameData == <<100, 97, 116, 97>>
KindApp == <<97, 112, 112>>

\* The names an entry of <base>/<kind>/ can have, at each of its levels.
Names == {NameA, NameAB, NameData}
ArchNames == {NameA, NameData}
BranchNames == {NameA, NameAB}

\* Paths below <base>/<kind>/: name, name/arch, name/arch/branch.
Paths ==
  {<<n>> : n \in Names} \cup (Names \X ArchNames) \cup (Names \X ArchNames \X BranchNames)

\* g_strdup_printf ("%s/%s/%s/%s", kind, name, arch, branch)
RefString(n, a, b) == KindApp \o Slash \o n \o Slash \o a \o Slash \o b

\* strcmp (a, b) < 0
RECURSIVE StrLess(_, _)
StrLess(a, b) ==
  IF b = <<>> THEN FALSE
  ELSE IF a = <<>> THEN TRUE
  ELSE IF Head(a) # Head(b) THEN Head(a) < Head(b)
  ELSE StrLess(Tail(a), Tail(b))

\* g_ptr_array_sort (refs, strvcmp): the array in ascending strcmp order.
RECURSIVE Insert(_, _)
Insert(x, sorted) ==
  IF sorted = <<>> THEN <<x>>
  ELSE IF StrLess(Head(sorted), x) THEN <<Head(sorted)>> \o Insert(x, Tail(sorted))
  ELSE <<x>> \o sorted

RECURSIVE g_ptr_array_sort(_)
g_ptr_array_sort(refs) ==
  IF refs = <<>> THEN <<>> ELSE Insert(Head(refs), g_ptr_array_sort(Tail(refs)))

\* The orders in which directory enumeration can have appended the refs R.
Enumerations(R) ==
  {q \in [1..Cardinality(R) -> R] : \A i, j \in 1..Cardinality(R) : i # j => q[i] # q[j]}

IsDir(path) == kind_dir.entries[path] = "dir"

\* What the loops of xdg_app_dir_list_refs_for_name (kind, name) add: a
\* directory named data under the name is passed over.
refs_for_name(n) ==
  {RefString(n, a, b) : <<a, b>> \in
     {x \in ArchNames \X BranchNames :
        IsDir(<<n, x[1]>>) /\ x[1] # NameData /\ IsDir(<<n, x[1], x[2]>>)}}

\* What the loop of xdg_app_dir_list_refs (kind) adds.
refs_of_kind == UNION {refs_for_name(n) : n \in {m \in Names : IsDir(<<m>>)}}

\* No symlink to read a target from; a NULL string.
NoLink == <<>>

NoAnswer == [op |-> "none", arg |-> <<>>, ret |-> "none", value |-> <<>>]

\* xdg_app_dir_list_refs (kind)
list_refs_call ==
  /\ \/ /\ ~kind_dir.exists
        /\ answer' = [op |-> "list_refs", arg |-> <<>>, ret |-> "ok", value |-> <<>>]
     \/ /\ kind_dir.exists
        /\ \E q \in Enumerations(refs_of_kind) :
             answer' = [op |-> "list_refs", arg |-> <<>>, ret |-> "ok",
                        value |-> g_ptr_array_sort(q)]
     \/ /\ kind_dir.exists
        /\ answer' = [op |-> "list_refs", arg |-> <<>>, ret |-> "error", value |-> <<>>]
  /\ UNCHANGED <<kind_dir, current, other_than_lookup>>

\* A listing that takes a missing directory for an error.
list_refs_for_name_strict(n) ==
  /\ \/ /\ kind_dir.exists /\ IsDir(<<n>>)
        /\ \E q \in Enumerations(refs_for_name(n)) :
             answer' = [op |-> "list_refs_for_name", arg |-> n, ret |-> "ok",
                        value |-> g_ptr_array_sort(q)]
     \/ answer' = [op |-> "list_refs_for_name", arg |-> n, ret |-> "error", value |-> <<>>]
  /\ UNCHANGED <<kind_dir, current, other_than_lookup>>

\* xdg_app_dir_list_refs_for_name (kind, name)
list_refs_for_name_call(n) ==
  /\ \/ /\ ~(kind_dir.exists /\ kind_dir.entries[<<n>>] # "none")
        /\ answer' = [op |-> "list_refs_for_name", arg |-> n, ret |-> "ok", value |-> <<>>]
     \/ /\ kind_dir.exists /\ IsDir(<<n>>)
        /\ \E q \in Enumerations(refs_for_name(n)) :
             answer' = [op |-> "list_refs_for_name", arg |-> n, ret |-> "ok",
                        value |-> g_ptr_array_sort(q)]
     \/ /\ kind_dir.exists /\ kind_dir.entries[<<n>>] # "none"
        /\ answer' = [op |-> "list_refs_for_name", arg |-> n, ret |-> "error", value |-> <<>>]
  /\ UNCHANGED <<kind_dir, current, other_than_lookup>>

\* The deploy base of the ref exists once a checkout was made in it.
deploy_base_exists == \E i \in Ids : checkouts[i].where # "none"

\* xdg_app_dir_list_deployed (ref) as a lookup: NOT_FOUND from
\* g_file_enumerate_children is a success with no checksums.
list_deployed_call ==
  /\ \/ /\ ~deploy_base_exists
        /\ answer' = [op |-> "list_deployed", arg |-> <<>>, ret |-> "ok", value |-> {}]
     \/ /\ deploy_base_exists
        /\ answer' = [op |-> "list_deployed", arg |-> <<>>, ret |-> "ok", value |-> list_deployed]
     \/ /\ deploy_base_exists
        /\ answer' = [op |-> "list_deployed", arg |-> <<>>, ret |-> "error", value |-> {}]
  /\ UNCHANGED <<kind_dir, current, other_than_lookup>>

\* xdg_app_dir_current_ref (name): NULL when `current` cannot be queried.
current_ref_call ==
  /\ answer' = [op |-> "current_ref", arg |-> <<>>, ret |-> "ok",
                value |-> IF current = NoLink THEN NoLink
                          ELSE KindApp \o Slash \o NameA \o Slash \o current]
  /\ UNCHANGED <<kind_dir, current, other_than_lookup>>

\* xdg_app_dir_read_active (ref): NULL when `active` cannot be queried.
read_active_call ==
  /\ answer' = [op |-> "read_active", arg |-> <<>>, ret |-> "ok", value |-> active]
  /\ UNCHANGED <<kind_dir, current, other_than_lookup>>

\* ------------------------------------------------------------ collect-deployed-refs
\* The character `.`, which begins the name of a hidden entry.
Dot == 46

\* g_str_has_prefix (str, prefix)
g_str_has_prefix(str, prefix) ==
  Len(prefix) <= Len(str) /\ SubSeq(str, 1, Len(prefix)) = prefix

\* g_file_query_exists (<dir>/<name>/<x>/<y>/active): the symlink is there
\* and what it names exists.
active_exists(name, x, y) == <<name, x, y>> \in actives

\* child2 = g_file_get_child (child1, branch);
\* child3 = g_file_get_child (child2, arch)
child3(name, branch, arch) == <<name, branch, arch>>

NotCollected == [op |-> "none", given |-> FALSE, prefix |-> <<>>, branch |-> <<>>,
                 arch |-> <<>>, ret |-> "none", names |-> {}]

\* xdg_app_dir_collect_deployed_refs (type, name_prefix, branch, arch,
\* hash): the names it adds to the hash table.  given is whether
\* name_prefix is not NULL.
collect_deployed_refs_call(given, prefix, branch, arch) ==
  LET called == [NotCollected EXCEPT !.op = "collect", !.given = given, !.prefix = prefix,
                                     !.branch = branch, !.arch = arch]
      added == {name \in Names :
                  /\ IsDir(<<name>>)
                  /\ name[1] # Dot
                  /\ (~given \/ g_str_has_prefix(name, prefix))
                  /\ LET path == child3(name, branch, arch)
                     IN active_exists(path[1], path[2], path[3])}
  IN
  /\ IF ~kind_dir.exists
     THEN collected' = [called EXCEPT !.ret = "ok"]
     ELSE \/ collected' = [called EXCEPT !.ret = "ok", !.names = added]
          \/ collected' = [called EXCEPT !.ret = "error"]
  /\ UNCHANGED <<actives, other_than_collect>>

\* ------------------------------------------------------------ make-current-ref
\* The branch of a ref app/<name>/<arch>/<branch> may be empty.
EmptyBranch == <<>>

McIdle == [pc |-> "idle", arch |-> <<>>, branch |-> <<>>, before |-> NoLink, ret |-> "none"]

\* g_file_delete (current_link) when it succeeds.
delete_current(link) == NoLink

\* xdg_app_dir_make_current_ref (ref) for a ref of the application, up to
\* the making of the new link: g_file_delete (current_link), whose error
\* is not looked at: the link is gone, or the delete failed and it is
\* still there.
make_current_ref_call(arch, branch) ==
  /\ mc.pc = "idle"
  /\ mc' = [McIdle EXCEPT !.pc = "symlink", !.arch = arch, !.branch = branch, !.before = current]
  /\ \/ current' = delete_current(current)
     \/ current # NoLink /\ UNCHANGED current
  /\ UNCHANGED <<kind_dir, answer, other_than_lookup_and_current>>

\* A make-current-ref that puts the previous link back when it cannot make
\* the new one.
make_current_ref_symlink_restoring ==
  /\ mc.pc = "symlink"
  /\ IF mc.branch = EmptyBranch
     THEN mc' = [mc EXCEPT !.pc = "done", !.ret = "ok"] /\ UNCHANGED current
     ELSE \/ /\ current = NoLink
             /\ current' = mc.arch \o Slash \o mc.branch
             /\ mc' = [mc EXCEPT !.pc = "done", !.ret = "ok"]
          \/ /\ mc' = [mc EXCEPT !.pc = "done", !.ret = "error"]
             /\ current' = mc.before
  /\ UNCHANGED <<kind_dir, answer, other_than_lookup_and_current>>

\* if (*ref_parts[3] != 0) g_file_make_symbolic_link (current_link,
\* "<arch>/<branch>"), which fails when the link exists; then the return.
make_current_ref_symlink ==
  /\ mc.pc = "symlink"
  /\ IF mc.branch = EmptyBranch
     THEN mc' = [mc EXCEPT !.pc = "done", !.ret = "ok"] /\ UNCHANGED current
     ELSE \/ /\ current = NoLink
             /\ current' = mc.arch \o Slash \o mc.branch
             /\ mc' = [mc EXCEPT !.pc = "done", !.ret = "ok"]
          \/ /\ mc' = [mc EXCEPT !.pc = "done", !.ret = "error"]
             /\ UNCHANGED current
  /\ UNCHANGED <<kind_dir, answer, other_than_lookup_and_current>>

\* The caller takes the result.
make_current_ref_return ==
  /\ mc.pc = "done"
  /\ mc' = McIdle
  /\ UNCHANGED <<kind_dir, current, answer, other_than_lookup_and_current>>

\* ------------------------------------------------------------ Exec rewriting
\* Strings are sequences of character codes.
Space == 32
Quote == 39
Backslash == 92
LauncherPath == <<47, 120, 100, 103, 45, 97, 112, 112>>
StrRunBranch == <<32, 114, 117, 110, 32, 45, 45, 98, 114, 97, 110, 99, 104, 61>>
StrArch == <<32, 45, 45, 97, 114, 99, 104, 61>>
StrCommand == <<32, 45, 45, 99, 111, 109, 109, 97, 110, 100, 61>>
StrRun == <<114, 117, 110>>
StrBranchOpt == <<45, 45, 98, 114, 97, 110, 99, 104, 61>>
StrArchOpt == <<45, 45, 97, 114, 99, 104, 61>>
StrCommandOpt == <<45, 45, 99, 111, 109, 109, 97, 110, 100, 61>>

\* The characters an Exec value is made of here: a letter, a space, a single
\* quote, a dollar sign and a percent sign.
ExecChars == {97, Space, Quote, 36, 37}

\* g_ascii_isalnum (c)
g_ascii_isalnum(c) == c \in 48..57 \/ c \in 65..90 \/ c \in 97..122

\* need_quotes (str): some character is neither alphanumeric nor one of
\* "-_%.=:/@".
need_quotes_alnum(str) == \E i \in 1..Len(str) : ~g_ascii_isalnum(str[i])

need_quotes(str) ==
  \E i \in 1..Len(str) :
    /\ ~g_ascii_isalnum(str[i])
    /\ str[i] \notin {45, 95, 37, 46, 61, 58, 47, 64}

\* g_shell_quote (str): the string in single quotes, each single quote of it
\* written as '\''.
RECURSIVE QuoteFrom(_, _)
QuoteFrom(str, i) ==
  IF i > Len(str) THEN <<Quote>>
  ELSE (IF str[i] = Quote THEN <<Quote, Backslash, Quote, Quote>> ELSE <<str[i]>>)
       \o QuoteFrom(str, i + 1)

g_shell_quote(str) == <<Quote>> \o QuoteFrom(str, 1)

\* maybe_quote (str)
maybe_quote(str) == IF need_quotes(str) THEN g_shell_quote(str) ELSE str

\* The position of the first single quote of str after position i, 0 when
\* there is none.
ClosingQuote(str, i) ==
  IF \E j \in (i + 1)..Len(str) : str[j] = Quote
  THEN CHOOSE j \in (i + 1)..Len(str) :
         str[j] = Quote /\ \A k \in (i + 1)..(j - 1) : str[k] # Quote
  ELSE 0

\* g_shell_parse_argv (str): words are separated by spaces, text in single
\* quotes is taken literally, and a quote that is not closed or a string
\* with no word is an error.
RECURSIVE Tokenize(_, _, _, _, _)
Tokenize(str, i, cur, inword, argv) ==
  IF i > Len(str)
  THEN [ok |-> TRUE, argv |-> IF inword THEN Append(argv, cur) ELSE argv]
  ELSE IF str[i] = Space
  THEN Tokenize(str, i + 1, <<>>, FALSE, IF inword THEN Append(argv, cur) ELSE argv)
  ELSE IF str[i] = Quote
  THEN IF ClosingQuote(str, i) = 0
       THEN [ok |-> FALSE, argv |-> <<>>]
       ELSE Tokenize(str, ClosingQuote(str, i) + 1,
                     cur \o SubSeq(str, i + 1, ClosingQuote(str, i) - 1), TRUE, argv)
  ELSE Tokenize(str, i + 1, Append(cur, str[i]), TRUE, argv)

g_shell_parse_argv(str) ==
  LET r == Tokenize(str, 1, <<>>, FALSE, <<>>)
  IN IF r.ok /\ Len(r.argv) >= 1 THEN r ELSE [ok |-> FALSE, argv |-> <<>>]

\* A group of a key file: whether it has the keys TryExec and
\* X-GNOME-Bugzilla-ExtraInfoScript, and its Exec value when it has one.
NoExec == [has |-> FALSE, value |-> <<>>]
ExecOf(str) == [has |-> TRUE, value |-> str]

RECURSIVE StringsUpTo(_)
StringsUpTo(n) ==
  IF n = 0 THEN {<<>>}
  ELSE StringsUpTo(n - 1)
       \cup {Append(str, c) : str \in {t \in StringsUpTo(n - 1) : Len(t) = n - 1},
                              c \in ExecChars}

ExecValues == {NoExec} \cup {ExecOf(str) : str \in StringsUpTo(MaxLen)}

Groups == [TryExec : BOOLEAN, ExtraInfoScript : BOOLEAN, Exec : ExecValues]

\* The arguments of the old command line, from the i-th on, each after a
\* space.
RECURSIVE AppendArgs(_, _, _)
AppendArgs(new, argv, i) ==
  IF i > Len(argv) THEN new
  ELSE AppendArgs(new \o <<Space>> \o maybe_quote(argv[i]), argv, i + 1)

\* export_desktop_file, the Exec line of one group, with the command left
\* among the arguments.
new_exec_all_args(d, g) ==
  LET begin == LauncherPath \o StrRunBranch \o maybe_quote(d.branch)
                 \o StrArch \o maybe_quote(d.arch)
      old == g_shell_parse_argv(g.Exec.value)
  IN IF g.Exec.has /\ old.ok
     THEN AppendArgs(begin \o StrCommand \o maybe_quote(old.argv[1])
                       \o <<Space>> \o maybe_quote(d.app), old.argv, 1)
     ELSE begin \o <<Space>> \o maybe_quote(d.app)

\* export_desktop_file, the Exec line of one group.
new_exec(d, g) ==
  LET begin == LauncherPath \o StrRunBranch \o maybe_quote(d.branch)
                 \o StrArch \o maybe_quote(d.arch)
      old == g_shell_parse_argv(g.Exec.value)
  IN IF g.Exec.has /\ old.ok
     THEN AppendArgs(begin \o StrCommand \o maybe_quote(old.argv[1])
                       \o <<Space>> \o maybe_quote(d.app), old.argv, 2)
     ELSE begin \o <<Space>> \o maybe_quote(d.app)

\* export_desktop_file: what the loop over the groups does to one group.
export_group(d, g) ==
  [TryExec |-> FALSE, ExtraInfoScript |-> FALSE, Exec |-> ExecOf(new_exec(d, g))]

NoDesktop == [app |-> <<>>, branch |-> <<>>, arch |-> <<>>, groups |-> <<>>]
NotExported == [done |-> FALSE, groups |-> <<>>]

\* export_desktop_file on a key file that loads, up to g_key_file_to_data.
export_keyfile ==
  /\ ~exported.done
  /\ exported' = [done |-> TRUE,
                  groups |-> [i \in 1..Len(desktop.groups) |->
                                export_group(desktop, desktop.groups[i])]]
  /\ UNCHANGED <<desktop, other_than_exec>>

\* The next file is taken up.
export_keyfile_return ==
  /\ exported.done
  /\ exported' = NotExported
  /\ UNCHANGED <<desktop, other_than_exec>>

\* ------------------------------------------------------------ remote fetch
\* The schemes of the URL of a remote and the status codes a server gives
\* (2 is a transport failure reported by the HTTP library).
Schemes == {"file", "http", "https", "ftp"}
StatusCodes == {2, 200, 204, 301, 404, 410, 500}

\* SOUP_STATUS_IS_SUCCESSFUL (status)
SOUP_STATUS_IS_SUCCESSFUL(status) == status >= 200 /\ status < 300

\* A guint32 is kept as two halves of 16 bits.
Half == 65536
Word32(hi, lo) == [hi |-> hi, lo |-> lo]

\* a + n in 32 bits, for 0 <= n < Half.
Add32(a, n) ==
  [hi |-> (a.hi + ((a.lo + n) \div Half)) % Half, lo |-> (a.lo + n) % Half]

\* a > n, for 0 <= n < Half.
Greater32(a, n) == a.hi > 0 \/ a.lo > n

\* What the remote holds for an object: the status of the GET (for a file://
\* URL, whether the file can be read), whether the body is well-formed,
\* whether the files-list of a dirtree has an entry named metadata, and the
\* length and header-size field of a .filez object.
ObjectTypes == {"commit", "dirtree", "filez"}
NoObject == [status |-> 404, good |-> TRUE, has_metadata |-> FALSE, size |-> 0,
             header |-> Word32(0, 0)]
FilezSizes == {0, 7, 8, 12}
HeaderSizes == {Word32(hi, lo) : hi \in {0, Half - 1}, lo \in {0, 4, 5, Half - 8, Half - 1}}

Objects(type) ==
  {[NoObject EXCEPT !.status = st] : st \in {c \in StatusCodes : ~SOUP_STATUS_IS_SUCCESSFUL(c)}}
  \cup
  UNION {
    IF type = "commit"
    THEN {[NoObject EXCEPT !.status = st, !.good = g] : g \in BOOLEAN}
    ELSE IF type = "dirtree"
    THEN {[NoObject EXCEPT !.status = st, !.good = g, !.has_metadata = g /\ m] :
            g \in BOOLEAN, m \in BOOLEAN}
    ELSE {[NoObject EXCEPT !.status = st, !.size = n, !.header = h] :
            n \in FilezSizes, h \in HeaderSizes}
    : st \in {c \in StatusCodes : SOUP_STATUS_IS_SUCCESSFUL(c)}}

NoRemote == [scheme |-> "file", objects |-> [t \in ObjectTypes |-> NoObject]]

\* xdg_app_dir_load_uri: the bytes are there (ok) or NULL was returned, with
\* the kind of the error that was set, "unset" when none was.
Loaded == [ok |-> TRUE, kind |-> "none"]
NotLoaded(kind) == [ok |-> FALSE, kind |-> kind]

xdg_app_dir_load_uri(scheme, o) ==
  IF scheme = "file"
  THEN IF SOUP_STATUS_IS_SUCCESSFUL(o.status) THEN Loaded ELSE NotLoaded("unset")
  ELSE IF scheme \in {"http", "https"}
  THEN IF SOUP_STATUS_IS_SUCCESSFUL(o.status) THEN Loaded
       ELSE IF o.status \in {404, 410} THEN NotLoaded("NOT_FOUND")
       ELSE NotLoaded("FAILED")
  ELSE NotLoaded("FAILED")

NothingHanded == [any |-> FALSE, offset |-> Word32(0, 0)]
FetchIdle == [pc |-> "idle", requests |-> <<>>, load |-> Loaded, ret |-> "none",
              handed |-> NothingHanded]

FetchDone(r) == [fetch EXCEPT !.pc = "done", !.ret = r]

\* xdg_app_dir_fetch_metadata is called.
fetch_metadata_call ==
  /\ fetch.pc = "idle"
  /\ fetch' = [FetchIdle EXCEPT !.pc = "get_commit"]
  /\ UNCHANGED <<remote, other_than_fetch>>

\* xdg_app_dir_fetch_remote_object (remote, checksum, type): the URL of the
\* remote is looked up, which may fail, and the object is loaded from it.
fetch_remote_object(type) ==
  /\ fetch.pc = "get_" \o type
  /\ \/ fetch' = FetchDone("FAILED")
     \/ LET got == xdg_app_dir_load_uri(remote.scheme, remote.objects[type])
        IN fetch' = [fetch EXCEPT !.requests = Append(@, type),
                                  !.load = got,
                                  !.pc = IF got.ok THEN "check_" \o type ELSE "done",
                                  !.ret = IF got.ok THEN @ ELSE got.kind]
  /\ UNCHANGED <<remote, other_than_fetch>>

\* fetch-metadata going on to the dirtree without validating the commit.
fetch_check_commit_skipped ==
  /\ fetch.pc = "check_commit"
  /\ fetch' = [fetch EXCEPT !.pc = "get_dirtree"]
  /\ UNCHANGED <<remote, other_than_fetch>>

\* ostree_validate_structureof_commit
fetch_check_commit ==
  /\ fetch.pc = "check_commit"
  /\ fetch' = IF remote.objects["commit"].good
              THEN [fetch EXCEPT !.pc = "get_dirtree"]
              ELSE FetchDone("FAILED")
  /\ UNCHANGED <<remote, other_than_fetch>>

\* ostree_validate_structureof_dirtree and the search for the file named
\* metadata.
fetch_check_dirtree ==
  /\ fetch.pc = "check_dirtree"
  /\ fetch' = IF ~remote.objects["dirtree"].good THEN FetchDone("FAILED")
              ELSE IF ~remote.objects["dirtree"].has_metadata THEN FetchDone("NOT_FOUND")
              ELSE [fetch EXCEPT !.pc = "get_filez"]
  /\ UNCHANGED <<remote, other_than_fetch>>

\* The header of the .filez object: its length is at least 8, the
\* header-size plus 8 is computed in 32 bits and must not exceed the length;
\* what follows is handed to the decompressor, which may fail.
fetch_check_filez ==
  /\ fetch.pc = "check_filez"
  /\ LET o == remote.objects["filez"]
         archive_header_size == Add32(o.header, 4 + 4)
     IN IF o.size < 8 THEN fetch' = FetchDone("FAILED")
        ELSE IF Greater32(archive_header_size, o.size) THEN fetch' = FetchDone("FAILED")
        ELSE \E r \in {"ok", "FAILED"} :
               fetch' = [FetchDone(r) EXCEPT
                           !.handed = [any |-> TRUE, offset |-> archive_header_size]]
  /\ UNCHANGED <<remote, other_than_fetch>>

\* The caller takes the result.
fetch_metadata_return ==
  /\ fetch.pc = "done"
  /\ fetch' = FetchIdle
  /\ UNCHANGED <<remote, other_than_fetch>>

\* ------------------------------------------------------------ ensure-repo
\* The mode <base>/repo is created in.
RepoMode == IF user THEN "BARE_USER" ELSE "BARE"

NotCalled == [pc |-> "idle", ret |-> "none", did |-> "nothing"]
Did(ret, did) == [pc |-> "idle", ret |-> ret, did |-> did]

\* An ensure-repo that looks for <base>/repo again although the instance
\* has a handle.
ensure_repo_call_again(p) ==
  /\ er[p].pc = "idle"
  /\ \/ er' = [er EXCEPT ![p] = Did("error", "path_failed")]
     \/ er' = [er EXCEPT ![p] = [pc |-> IF repo_dir = "none" THEN "create" ELSE "open",
                                 ret |-> "none", did |-> "nothing"]]
  /\ UNCHANGED <<user, repo_dir, self_repo, other_than_repo>>

\* xdg_app_dir_ensure_repo, up to g_file_query_exists (repodir): an
\* instance that has a handle returns at once, another one ensures the base
\* directory and looks for <base>/repo.
ensure_repo_call(p) ==
  /\ er[p].pc = "idle"
  /\ IF self_repo[p] # "NULL"
     THEN er' = [er EXCEPT ![p] = Did("ok", "nothing")]
     ELSE \/ er' = [er EXCEPT ![p] = Did("error", "path_failed")]
          \/ er' = [er EXCEPT ![p] = [pc |-> IF repo_dir = "none" THEN "create" ELSE "open",
                                      ret |-> "none", did |-> "nothing"]]
  /\ UNCHANGED <<user, repo_dir, self_repo, other_than_repo>>

\* ostree_repo_create in the mode of the scope; when it fails <base>/repo
\* is removed.  Another instance may have made <base>/repo by now.
ensure_repo_create(p) ==
  /\ er[p].pc = "create"
  /\ \/ /\ repo_dir' = IF repo_dir = "none" THEN RepoMode ELSE repo_dir
        /\ self_repo' = [self_repo EXCEPT ![p] = repo_dir']
        /\ er' = [er EXCEPT ![p] = Did("ok", "create")]
     \/ /\ repo_dir' = "none"
        /\ self_repo' = [self_repo EXCEPT ![p] = "NULL"]
        /\ er' = [er EXCEPT ![p] = Did("error", "create_failed")]
  /\ UNCHANGED <<user, other_than_repo>>

\* ostree_repo_open of the <base>/repo that was found.
ensure_repo_open(p) ==
  /\ er[p].pc = "open"
  /\ \/ /\ repo_dir # "none"
        /\ self_repo' = [self_repo EXCEPT ![p] = repo_dir]
        /\ er' = [er EXCEPT ![p] = Did("ok", "open")]
     \/ /\ self_repo' = [self_repo EXCEPT ![p] = "NULL"]
        /\ er' = [er EXCEPT ![p] = Did("error", "open_failed")]
  /\ UNCHANGED <<user, repo_dir, other_than_repo>>

\* ------------------------------------------------------------ overrides
\* The override files: one per application and scope (the per-user and the
\* system-wide base directory each have an overrides/ directory).
OverrideApps == {"a", "b"}
OverridePairs == OverrideApps \X BOOLEAN

\* A key file: the value of its one key, and what else it holds: nothing,
\* or a comment.
OverrideKeyFiles == [value : {0, 1}, extra : {"none", "comment"}]

\* A key file with nothing in it, and the content of a file that is missing.
EmptyKeyFile == [value |-> -1, extra |-> "none"]
NoFile == [value |-> -2, extra |-> "none"]

\* g_key_file_to_data: groups, keys, values and comments are all written
\* out.
g_key_file_to_data(k) == k

\* g_key_file_load_from_data with no flags: comments are not kept.
g_key_file_load_from_data(data) == [data EXCEPT !.extra = "none"]

NoOverrideOp == [op |-> "none", pair |-> <<"a", FALSE>>, k |-> EmptyKeyFile,
                 ret |-> "none"]

\* xdg_app_save_override_keyfile (metakey, app_id, user): the parent
\* directory is made and the key file is saved over <base>/overrides/<app>.
save_override_keyfile(k, pair) ==
  /\ \/ /\ overrides' = [overrides EXCEPT ![pair] = g_key_file_to_data(k)]
        /\ ov' = [op |-> "save", pair |-> pair, k |-> k, ret |-> "ok"]
     \/ /\ ov' = [op |-> "save", pair |-> pair, k |-> k, ret |-> "error"]
        /\ UNCHANGED overrides
  /\ UNCHANGED other_than_override

\* xdg_app_load_override_keyfile (app_id, user): a file that cannot be read
\* gives an empty key file.
load_override_keyfile(pair) ==
  /\ ov' = [op |-> "load", pair |-> pair, ret |-> "ok",
            k |-> IF overrides[pair] = NoFile THEN EmptyKeyFile
                  ELSE g_key_file_load_from_data(overrides[pair])]
  /\ UNCHANGED <<overrides, other_than_override>>

\* ------------------------------------------------------------ load-deployed
\* A context that was not loaded.
NullContext == [value |-> -3, extra |-> "none"]

\* xdg_app_load_override_file (app_id, user): the context made of the key
\* file xdg_app_load_override_keyfile gives.
xdg_app_load_override_file(app, scope) ==
  IF overrides[<<app, scope>>] = NoFile THEN EmptyKeyFile
  ELSE g_key_file_load_from_data(overrides[<<app, scope>>])

\* xdg_app_context_merge (overrides, other): the contexts merged so far,
\* in the order of the merges.
xdg_app_context_merge(merged, other) == Append(merged, other)

\* A merge of the user override first and the system override last.
get_overrides_user_first(deploy) ==
  LET first == IF deploy.user_overrides # NullContext
               THEN xdg_app_context_merge(<<>>, deploy.user_overrides) ELSE <<>>
  IN IF deploy.system_overrides # NullContext
     THEN xdg_app_context_merge(first, deploy.system_overrides) ELSE first

\* xdg_app_deploy_get_overrides (deploy)
xdg_app_deploy_get_overrides(deploy) ==
  LET first == IF deploy.system_overrides # NullContext
               THEN xdg_app_context_merge(<<>>, deploy.system_overrides) ELSE <<>>
  IN IF deploy.user_overrides # NullContext
     THEN xdg_app_context_merge(first, deploy.user_overrides) ELSE first

\* xdg_app_dir_get_if_deployed (ref, checksum): <deploy-base>/<checksum>,
\* or <deploy-base>/active when no checksum is given, is a directory.
xdg_app_dir_get_if_deployed(c) ==
  IF c = Absent THEN active # Absent /\ query_exists(active) ELSE query_exists(c)

RefKinds == {"app", "runtime"}
NoDeploy == [system_overrides |-> NullContext, user_overrides |-> NullContext]
NotLoadedYet == [op |-> "none", kind |-> "app", app |-> "a", sum |-> Absent,
                 ret |-> "none", deploy |-> NoDeploy, overrides |-> <<>>]

\* xdg_app_dir_load_deployed (ref, checksum) for a ref of the given kind
\* and application, and xdg_app_deploy_get_overrides of the deploy it
\* returns.  Reading or parsing `metadata`, or making a context of an
\* override file, may fail.
load_deployed_call(kind, app, c) ==
  LET called == [NotLoadedYet EXCEPT !.op = "load_deployed", !.kind = kind, !.app = app, !.sum = c]
      deploy == [system_overrides |-> IF kind = "app" /\ ~user
                                      THEN xdg_app_load_override_file(app, FALSE)
                                      ELSE NullContext,
                 user_overrides |-> IF kind = "app"
                                    THEN xdg_app_load_override_file(app, TRUE)
                                    ELSE NullContext]
  IN
  /\ IF ~xdg_app_dir_get_if_deployed(c)
     THEN ld' = [called EXCEPT !.ret = "NOT_DEPLOYED"]
     ELSE \/ ld' = [called EXCEPT !.ret = "ok", !.deploy = deploy,
                                  !.overrides = xdg_app_deploy_get_overrides(deploy)]
          \/ ld' = [called EXCEPT !.ret = "error"]
  /\ UNCHANGED other_than_loaded

\* ------------------------------------------------------------ remote options
\* What the group of a remote holds for xa.noenumerate (no such key, true,
\* false, or a value that is no boolean) and for xa.title.
RemoteGroups == [noenumerate : {"unset", "true", "false", "invalid"},
                 title : {"unset", "t"}]

\* ostree_repo_get_config gives NULL.
NoConfig == [loaded |-> FALSE, groups |-> [r \in RemoteNames |-> [noenumerate |-> "unset", title |-> "unset"]]]

\* g_key_file_get_boolean (config, group, "xa.noenumerate", NULL): FALSE
\* when the key is not there or its value is no boolean.
g_key_file_get_boolean(group) == group.noenumerate = "true"

\* xdg_app_dir_get_remote_noenumerate
xdg_app_dir_get_remote_noenumerate(r) ==
  IF config.loaded THEN g_key_file_get_boolean(config.groups[r]) ELSE TRUE

\* xdg_app_dir_get_remote_title: NULL (unset) without configuration.
xdg_app_dir_get_remote_title(r) ==
  IF config.loaded THEN config.groups[r].title ELSE "unset"

NoOption == [op |-> "none", remote |-> "r1", flag |-> FALSE, title |-> "unset"]

get_remote_noenumerate_call(r) ==
  /\ option' = [op |-> "noenumerate", remote |-> r,
                flag |-> xdg_app_dir_get_remote_noenumerate(r), title |-> "unset"]
  /\ UNCHANGED <<config, other_than_option>>

get_remote_title_call(r) ==
  /\ option' = [op |-> "title", remote |-> r, flag |-> FALSE,
                title |-> xdg_app_dir_get_remote_title(r)]
  /\ UNCHANGED <<config, other_than_option>>

\* ------------------------------------------------------------ Export Aggregator
\* The relative paths under export/ and under <base>/exports/: two names at
\* the top and one name below the first of them.
ExportPaths == {"x", "y", "x/y"}
TopLevel == {"x", "y"}
Below(p) == IF p = "x" THEN {"x/y"} ELSE {}

\* What export/ holds at a path: nothing, a regular file, a directory, or
\* something else (a symlink, a device).
SourceEntries == {"none", "file", "dir", "other"}

\* What exports/ holds at a path: nothing, a directory, a regular file, the
\* symlink update-exports makes for this path of the changed application, or
\* a symlink into another application's export/ whose file exists (live) or
\* is gone (dead).
Links == {"link_own", "link_live", "link_dead"}
AggregatorEntries == {"none", "dir", "file"} \cup Links

\* <base>/app/<changed-app>/current/active/export does not resolve.
NoExport == [exists |-> FALSE, entries |-> [q \in ExportPaths |-> "none"]]
EmptyTree == [q \in ExportPaths |-> "none"]

\* Following the symlink e found at exports/p leads to an existing file.
Resolves(e, p) ==
  \/ e = "link_live"
  \/ e = "link_own" /\ app_export.exists /\ app_export.entries[p] # "none"

\* xdg_app_remove_dangling_symlinks (exports): every symlink below exports/
\* that does not resolve is unlinked.
remove_dangling_symlinks(tree) ==
  [q \in ExportPaths |->
     IF tree[q] \in Links /\ ~Resolves(tree[q], q) THEN "none" ELSE tree[q]]

\* The files of the trigger directory: a name, whether it is a regular file
\* and whether the name ends in ".trigger".
TriggerFiles ==
  {[name |-> "a", regular |-> TRUE, suffix |-> TRUE],
   [name |-> "b", regular |-> TRUE, suffix |-> TRUE],
   [name |-> "b", regular |-> FALSE, suffix |-> TRUE],
   [name |-> "b", regular |-> TRUE, suffix |-> FALSE]}

NoTriggerDir == [exists |-> FALSE, files |-> <<>>]

\* The trigger directory with its files in the order of enumeration.
TriggerDirs ==
  {NoTriggerDir, [exists |-> TRUE, files |-> <<>>]}
  \cup {[exists |-> TRUE, files |-> <<f>>] : f \in TriggerFiles}
  \cup {[exists |-> TRUE, files |-> <<fg[1], fg[2]>>] :
          fg \in {x \in TriggerFiles \X TriggerFiles : x[1].name # x[2].name}}

\* The argument vector run_triggers builds for the trigger file f.
TriggerArgv(f) == <<"HELPER", "-a", "basedir", "-e", "-F", "/usr", f.name>>

UxIdle == [pc |-> "idle", todo |-> {}, next |-> 1, invoked |-> <<>>,
           outcomes |-> <<>>, ret |-> "none", before |-> EmptyTree]

\* How the run of a trigger ends: the helper ran and exited with 0, it could
\* not be spawned, or it exited with another status.
SpawnOutcomes == {"ok", "spawn_failed", "nonzero"}

UxDone(r) == [ux EXCEPT !.pc = "done", !.todo = {}, !.ret = r]

NoLast == [known |-> FALSE, tree |-> EmptyTree, invoked |-> <<>>]

\* Where update-exports goes on when the entries in todo are left to export.
AfterExport(todo) == IF todo = {} THEN "prune" ELSE "export"

\* xdg_app_dir_update_exports (changed_app) up to the call of
\* xdg_app_export_dir: the exports directory is ensured, and the export/ of
\* the active deployment of the current ref is exported when it exists.
update_exports_call ==
  /\ ux.pc = "idle"
  /\ \/ ux' = [UxDone("error") EXCEPT !.before = exports, !.invoked = <<>>]
     \/ LET todo == IF app_export.exists
                    THEN {q \in TopLevel : app_export.entries[q] # "none"}
                    ELSE {}
        IN ux' = [UxIdle EXCEPT !.pc = AfterExport(todo), !.todo = todo,
                                !.before = exports]
  /\ UNCHANGED <<exports, app_export, triggers, last, other_than_exports>>

\* export_dir, a regular file: whatever the destination holds under the name
\* (d, not a directory) is unlinked and the symlink is made.
export_file_toggled(d) == IF d = "link_own" THEN "none" ELSE "link_own"

export_file(d) == "link_own"

\* export_dir: one entry of the source directory. A directory is made in
\* the destination (an existing entry is accepted), opened and exported in
\* turn; a regular file has the destination entry unlinked and a symlink
\* made in its place; anything else is passed over.
export_dent(q) ==
  /\ ux.pc = "export"
  /\ q \in ux.todo
  /\ LET s == app_export.entries[q]
         d == exports[q]
         rest == ux.todo \ {q}
         inside == {c \in Below(q) : app_export.entries[c] # "none"}
     IN \/ /\ s = "other"
           /\ ux' = [ux EXCEPT !.todo = rest, !.pc = AfterExport(rest)]
           /\ UNCHANGED <<exports, app_export>>
        \/ /\ s = "dir"
           /\ d \in {"none", "dir"}
           /\ exports' = [exports EXCEPT ![q] = "dir"]
           /\ ux' = [ux EXCEPT !.todo = rest \cup inside,
                               !.pc = AfterExport(rest \cup inside)]
           /\ UNCHANGED app_export
        \/ /\ s = "dir"
           /\ d \in {"file", "link_live", "link_dead"}
           /\ ux' = UxDone("ENOTDIR")
           /\ UNCHANGED <<exports, app_export>>
        \/ /\ s = "dir"
           /\ d = "link_own"
           /\ \/ /\ ux' = UxDone("ENOTDIR")
                 /\ UNCHANGED <<exports, app_export>>
              \/ /\ app_export' =
                      [app_export EXCEPT !.entries =
                         [c \in ExportPaths |->
                            IF c \in inside /\ @[c] = "file" THEN "other" ELSE @[c]]]
                 /\ ux' = [ux EXCEPT !.todo = rest, !.pc = AfterExport(rest)]
                 /\ UNCHANGED exports
        \/ /\ s = "file"
           /\ d = "dir"
           /\ ux' = UxDone("EISDIR")
           /\ UNCHANGED <<exports, app_export>>
        \/ /\ s = "file"
           /\ d # "dir"
           /\ \/ /\ exports' = [exports EXCEPT ![q] = export_file(d)]
                 /\ ux' = [ux EXCEPT !.todo = rest, !.pc = AfterExport(rest)]
              \/ /\ exports' = [exports EXCEPT ![q] = "none"]
                 /\ ux' = UxDone("error")
           /\ UNCHANGED app_export
        \/ /\ ux' = UxDone("error")
           /\ UNCHANGED <<exports, app_export>>
  /\ UNCHANGED <<triggers, last, other_than_exports>>

\* update-exports going on to the triggers with no symlink removed.
update_exports_prune_skipped ==
  /\ ux.pc = "prune"
  /\ ux' = [ux EXCEPT !.pc = "triggers", !.next = 1]
  /\ UNCHANGED <<exports, app_export, triggers, last, other_than_exports>>

\* xdg_app_dir_update_exports: the dangling symlinks are removed once the
\* export is through.
update_exports_prune ==
  /\ ux.pc = "prune"
  /\ \/ /\ exports' = remove_dangling_symlinks(exports)
        /\ ux' = [ux EXCEPT !.pc = "triggers", !.next = 1]
     \/ /\ ux' = UxDone("error")
        /\ UNCHANGED exports
  /\ UNCHANGED <<app_export, triggers, last, other_than_exports>>

\* run_triggers giving up at the first trigger that does not run to a
\* zero exit status.
run_triggers_strict ==
  /\ ux.pc = "triggers"
  /\ \/ /\ ~triggers.exists
        /\ ux' = UxDone("error")
     \/ /\ triggers.exists
        /\ ux.next > Len(triggers.files)
        /\ ux' = UxDone("ok")
     \/ /\ triggers.exists
        /\ ux.next <= Len(triggers.files)
        /\ LET f == triggers.files[ux.next]
           IN \/ /\ f.regular /\ f.suffix
                 /\ \E o \in SpawnOutcomes :
                      ux' = IF o = "ok"
                            THEN [ux EXCEPT !.next = @ + 1,
                                            !.invoked = Append(@, TriggerArgv(f)),
                                            !.outcomes = Append(@, o)]
                            ELSE [UxDone("error") EXCEPT
                                            !.invoked = Append(@, TriggerArgv(f)),
                                            !.outcomes = Append(@, o)]
              \/ /\ ~(f.regular /\ f.suffix)
                 /\ ux' = [ux EXCEPT !.next = @ + 1]
  /\ UNCHANGED <<exports, app_export, triggers, last, other_than_exports>>

\* xdg_app_dir_run_triggers: the trigger directory is enumerated; a regular
\* file named *.trigger is run through the helper, and a trigger that
\* cannot be run is only warned about.
run_triggers_next ==
  /\ ux.pc = "triggers"
  /\ \/ /\ ~triggers.exists
        /\ ux' = UxDone("error")
     \/ /\ triggers.exists
        /\ ux.next > Len(triggers.files)
        /\ ux' = UxDone("ok")
     \/ /\ triggers.exists
        /\ ux.next <= Len(triggers.files)
        /\ LET f == triggers.files[ux.next]
           IN \/ /\ f.regular /\ f.suffix
                 /\ \E o \in SpawnOutcomes :
                      ux' = [ux EXCEPT !.next = @ + 1,
                                       !.invoked = Append(@, TriggerArgv(f)),
                                       !.outcomes = Append(@, o)]
              \/ /\ ~(f.regular /\ f.suffix)
                 /\ ux' = [ux EXCEPT !.next = @ + 1]
     \/ /\ triggers.exists
        /\ ux' = UxDone("error")
  /\ UNCHANGED <<exports, app_export, triggers, last, other_than_exports>>

\* update-exports has returned: what a successful run left is what the next
\* run is compared with.
update_exports_return ==
  /\ ux.pc = "done"
  /\ last' = IF ux.ret = "ok"
             THEN [known |-> TRUE, tree |-> exports, invoked |-> ux.invoked]
             ELSE NoLast
  /\ ux' = UxIdle
  /\ UNCHANGED <<exports, app_export, triggers, other_than_exports>>

\* ------------------------------------------------------------ specifications
\* No run of the Launcher Rewriter on its own.
NoExportDir == [d \in Dirs |-> [n \in AllNames |-> Missing]]
RewriterInit == export_dir = NoExportDir /\ rw = RwIdle

\* No <base>/<kind>/ directory, no `current`, no lookup made.
NoKindDir == [exists |-> FALSE, entries |-> [q \in Paths |-> "none"]]
LookupInit == kind_dir = NoKindDir /\ current = NoLink /\ answer = NoAnswer

\* No exports/ entries, no export/ to aggregate, no run of update-exports.
ExportsInit ==
  /\ exports = EmptyTree
  /\ app_export = NoExport
  /\ triggers = NoTriggerDir
  /\ ux = UxIdle
  /\ last = NoLast

\* No key file loaded.
ExecInit == desktop = NoDesktop /\ exported = NotExported

\* No remote object asked for.
FetchInit == remote = NoRemote /\ fetch = FetchIdle

\* A system-wide store with no <base>/repo and no handle.
RepoInit ==
  /\ user = FALSE
  /\ repo_dir = "none"
  /\ self_repo = [p \in Procs |-> "NULL"]
  /\ er = [p \in Procs |-> NotCalled]

\* No override file.
OverrideInit == overrides = [pair \in OverridePairs |-> NoFile] /\ ov = NoOverrideOp

\* No configuration, no option asked for.
OptionInit == config = NoConfig /\ option = NoOption

\* No `origin` file and no revision in the object store.
ResolveInit == origin_file = NoOrigin /\ repo_refs = [rev \in Revisions |-> Absent]

\* No deploy loaded.
LoadedInit == ld = NotLoadedYet

\* No make-current-ref running.
CurrentInit == mc = McIdle

\* No deployment under <base>/<kind>/, nothing collected.
CollectInit == actives = {} /\ collected = NotCollected

\* Every probe of files/.ref goes through.
ProbeInit == ref_fault = [i \in Ids |-> "none"]

Init == StoreInit /\ RewriterInit /\ LookupInit /\ ExportsInit /\ ExecInit /\ FetchInit /\ RepoInit /\ OverrideInit /\ OptionInit /\ ResolveInit /\ LoadedInit /\ CurrentInit /\ CollectInit /\ ProbeInit

set_active_step(p) == set_active_symlink(p) \/ set_active_rename(p) \/ set_active_unlink(p)

deploy_step(p) ==
  \/ deploy_query_exists(p) \/ deploy_checkout_mkdir(p)
  \/ deploy_checkout_tree(p) \/ deploy_write_ref(p) \/ deploy_rewrite_export(p)

undeploy_step(p) ==
  \/ undeploy_read_active(p) \/ undeploy_list_deployed(p)
  \/ undeploy_ensure_removed(p) \/ undeploy_rename(p) \/ undeploy_probe(p) \/ undeploy_rm_rf(p)

cleanup_step(p) == cleanup_next(p) \/ cleanup_rm_rf(p)

app_step == \E i \in Ids : app_lock(i) \/ app_exit(i)

\* The steps of the four operations in process p.
store_step(p) ==
  \/ deploy_step(p) \/ undeploy_step(p) \/ set_active_step(p) \/ cleanup_step(p)
  \/ finish(p)

\* One store process runs the operations one at a time; applications start,
\* lock and exit between its steps.
Next ==
  \/ deploy_call(1) \/ undeploy_call(1) \/ set_active_call(1) \/ cleanup_call(1)
  \/ store_step(1)
  \/ app_step

\* The same without direct calls of set-active.
NextRemoval ==
  \/ deploy_call(1) \/ undeploy_call(1) \/ cleanup_call(1)
  \/ store_step(1)
  \/ app_step

\* Deploy and undeploy operations of several processes, their steps interleaved.
NextConcurrent ==
  \E p \in Procs :
    \/ deploy_call(p) \/ undeploy_call(p)
    \/ deploy_step(p) \/ undeploy_step(p) \/ set_active_step(p)
    \/ finish(p)

Spec == Init /\ [][Next]_vars

\* Deploy and undeploy operations of one process, one at a time; set-active
\* runs only as a part of them.
NextSequential ==
  \/ deploy_call(1) \/ undeploy_call(1)
  \/ deploy_step(1) \/ undeploy_step(1) \/ set_active_step(1)
  \/ finish(1)
  \/ app_step

SpecSequential == Init /\ [][NextSequential]_vars

\* A run of the Launcher Rewriter over an export/ of up to MaxEntries
\* files, in export/ itself or in its subdirectory.
Slots == Dirs \X FileNames

ExportDirWith(S, f) ==
  [d \in Dirs |-> [n \in AllNames |->
     IF <<d, n>> \in S THEN f[<<d, n>>]
     ELSE IF d = "top" /\ n = SubName /\ (\E x \in S : x[1] = "sub") THEN Directory
     ELSE Missing]]

InitRewriter ==
  /\ StoreInit
  /\ LookupInit
  /\ ExportsInit
  /\ ExecInit
  /\ FetchInit
  /\ RepoInit
  /\ OverrideInit
  /\ OptionInit
  /\ ResolveInit
  /\ LoadedInit
  /\ CurrentInit
  /\ CollectInit
  /\ ProbeInit
  /\ rw = RwIdle
  /\ \E S \in SUBSET Slots :
       /\ Cardinality(S) <= MaxEntries
       /\ \E f \in [S -> FileEntries] : export_dir = ExportDirWith(S, f)

NextRewriter == rewrite_call \/ rewrite_end_of_dir \/ \E n \in AllNames : rewrite_dent(n)

SpecRewriter == InitRewriter /\ [][NextRewriter]_vars

\* The walk is not suspended for ever: the loop takes its next step.
SpecRewriterLive == SpecRewriter /\ WF_vars(NextRewriter)

\* Lookups on a <base>/<kind>/ that is missing or holds up to MaxEntries
\* files and directories, besides the directories that lead to them.
Prefixes(path) == {SubSeq(path, 1, k) : k \in 1..Len(path)}

KindDirWith(made) ==
  [exists |-> TRUE,
   entries |-> [q \in Paths |->
     IF \E x \in made : x[1] = q THEN (CHOOSE x \in made : x[1] = q)[2]
     ELSE IF \E x \in made : q \in Prefixes(x[1]) THEN "dir"
     ELSE "none"]]

\* No path is made twice and nothing is made below a file.
Consistent(made) ==
  \A x, y \in made :
    /\ x[1] = y[1] => x = y
    /\ (x # y /\ x[1] \in Prefixes(y[1])) => x[2] = "dir"

InitLookup ==
  /\ StoreInit
  /\ RewriterInit
  /\ ExportsInit
  /\ ExecInit
  /\ FetchInit
  /\ RepoInit
  /\ OverrideInit
  /\ OptionInit
  /\ ResolveInit
  /\ LoadedInit
  /\ CurrentInit
  /\ CollectInit
  /\ ProbeInit
  /\ answer = NoAnswer
  /\ current \in {NoLink, NameAB \o Slash \o NameA}
  /\ \/ kind_dir = NoKindDir
     \/ \E k \in 0..MaxEntries :
          \E m \in [1..k -> Paths \X {"file", "dir"}] :
            LET made == {m[i] : i \in 1..k} IN
            /\ Consistent(made)
            /\ kind_dir = KindDirWith(made)

NextLookup ==
  \/ list_refs_call
  \/ \E n \in Names : list_refs_for_name_call(n)
  \/ list_deployed_call
  \/ current_ref_call
  \/ read_active_call

SpecLookup == InitLookup /\ [][NextLookup]_vars

\* Runs of update-exports, one after the other, over an exports/ and an
\* export/ in which nothing lies below what is not a directory.
Nested(tree) == \A q \in ExportPaths : \A c \in Below(q) : tree[c] # "none" => tree[q] = "dir"

InitExports ==
  /\ StoreInit
  /\ RewriterInit
  /\ LookupInit
  /\ ExecInit
  /\ FetchInit
  /\ RepoInit
  /\ OverrideInit
  /\ OptionInit
  /\ ResolveInit
  /\ LoadedInit
  /\ CurrentInit
  /\ CollectInit
  /\ ProbeInit
  /\ ux = UxIdle
  /\ last = NoLast
  /\ triggers \in TriggerDirs
  /\ exports \in {t \in [ExportPaths -> AggregatorEntries] : Nested(t)}
  /\ \/ app_export = NoExport
     \/ \E t \in [ExportPaths -> SourceEntries \ {"other"}] :
          /\ Nested(t)
          /\ app_export = [exists |-> TRUE, entries |-> t]

NextExports ==
  \/ update_exports_call
  \/ \E q \in ExportPaths : export_dent(q)
  \/ update_exports_prune
  \/ run_triggers_next
  \/ update_exports_return

SpecExports == InitExports /\ [][NextExports]_vars

\* export_desktop_file on key files of up to two groups, for refs whose
\* parts need quoting or not.
RefTokens == {<<97>>, <<97, 36>>}
SecondGroups ==
  {[TryExec |-> TRUE, ExtraInfoScript |-> FALSE, Exec |-> NoExec],
   [TryExec |-> FALSE, ExtraInfoScript |-> TRUE, Exec |-> ExecOf(<<97, Space, Quote, Quote>>)]}

InitExec ==
  /\ StoreInit
  /\ RewriterInit
  /\ LookupInit
  /\ ExportsInit
  /\ FetchInit
  /\ RepoInit
  /\ OverrideInit
  /\ OptionInit
  /\ ResolveInit
  /\ LoadedInit
  /\ CurrentInit
  /\ CollectInit
  /\ ProbeInit
  /\ exported = NotExported
  /\ \E a, b, c \in RefTokens :
       \E gs \in {<<>>} \cup {<<g>> : g \in Groups}
                  \cup {<<g, h>> : g \in Groups, h \in SecondGroups} :
         desktop = [app |-> a, branch |-> b, arch |-> c, groups |-> gs]

NextExec == export_keyfile \/ export_keyfile_return

SpecExec == InitExec /\ [][NextExec]_vars

\* Two processes running cleanup-removed over a .removed/ that undeploy
\* operations have filled: each entry is a checkout with or without
\* files/.ref, and one with files/.ref may be locked by an application.
Cleaners == {1, 2}

RemovedCheckout(i, r) ==
  [sum |-> ((i - 1) % NumChecksums) + 1, where |-> "removed", tree |-> TRUE,
   ref |-> r, export |-> "none"]

InitCleanups ==
  /\ RewriterInit
  /\ LookupInit
  /\ ExportsInit
  /\ ExecInit
  /\ FetchInit
  /\ RepoInit
  /\ OverrideInit
  /\ OptionInit
  /\ ResolveInit
  /\ LoadedInit
  /\ CurrentInit
  /\ CollectInit
  /\ ProbeInit
  /\ active = Absent
  /\ removed_dir = TRUE
  /\ proc = [p \in Procs |-> Idle]
  /\ \E left \in SUBSET Ids :
       \E r \in [left -> {-1, 0}], l \in [left -> BOOLEAN] :
         /\ checkouts = [i \in Ids |-> IF i \in left THEN RemovedCheckout(i, r[i])
                                                    ELSE NoCheckout]
         /\ ref_lock = [i \in Ids |-> i \in left /\ r[i] >= 0 /\ l[i]]

NextCleanups ==
  \E p \in Cleaners : cleanup_call(p) \/ cleanup_step(p) \/ finish(p)

SpecCleanups == InitCleanups /\ [][NextCleanups]_vars

\* Runs of fetch-metadata against a remote of any scheme and any answers.
InitFetch ==
  /\ StoreInit
  /\ RewriterInit
  /\ LookupInit
  /\ ExportsInit
  /\ ExecInit
  /\ RepoInit
  /\ OverrideInit
  /\ OptionInit
  /\ ResolveInit
  /\ LoadedInit
  /\ CurrentInit
  /\ CollectInit
  /\ ProbeInit
  /\ fetch = FetchIdle
  /\ \E sc \in Schemes :
       \E c \in Objects("commit"), d \in Objects("dirtree"), f \in Objects("filez") :
         remote = [scheme |-> sc,
                   objects |-> [t \in ObjectTypes |->
                                  IF t = "commit" THEN c ELSE IF t = "dirtree" THEN d ELSE f]]

NextFetch ==
  \/ fetch_metadata_call
  \/ \E t \in ObjectTypes : fetch_remote_object(t)
  \/ fetch_check_commit
  \/ fetch_check_dirtree
  \/ fetch_check_filez
  \/ fetch_metadata_return

SpecFetch == InitFetch /\ [][NextFetch]_vars

\* Calls of ensure-repo by the store instances of several processes on one
\* base directory, of either scope, whose repo is missing or was created
\* before.
InitRepo ==
  /\ StoreInit
  /\ RewriterInit
  /\ LookupInit
  /\ ExportsInit
  /\ ExecInit
  /\ FetchInit
  /\ OverrideInit
  /\ OptionInit
  /\ ResolveInit
  /\ LoadedInit
  /\ CurrentInit
  /\ CollectInit
  /\ ProbeInit
  /\ user \in BOOLEAN
  /\ repo_dir \in {"none", RepoMode}
  /\ self_repo = [p \in Procs |-> "NULL"]
  /\ er = [p \in Procs |-> NotCalled]

NextRepo == \E p \in Procs : ensure_repo_call(p) \/ ensure_repo_create(p) \/ ensure_repo_open(p)

SpecRepo == InitRepo /\ [][NextRepo]_vars

\* Saves and loads of override key files.
NextOverride ==
  \E pair \in OverridePairs :
    \/ \E k \in OverrideKeyFiles : save_override_keyfile(k, pair)
    \/ load_override_keyfile(pair)

SpecOverride == Init /\ [][NextOverride]_vars

\* The remote options of an object store with any configuration.
InitOption ==
  /\ StoreInit
  /\ RewriterInit
  /\ LookupInit
  /\ ExportsInit
  /\ ExecInit
  /\ FetchInit
  /\ RepoInit
  /\ OverrideInit
  /\ ResolveInit
  /\ LoadedInit
  /\ CurrentInit
  /\ CollectInit
  /\ ProbeInit
  /\ option = NoOption
  /\ \/ config = NoConfig
     \/ \E g \in [RemoteNames -> RemoteGroups] : config = [loaded |-> TRUE, groups |-> g]

NextOption ==
  \E r \in RemoteNames : get_remote_noenumerate_call(r) \/ get_remote_title_call(r)

SpecOption == InitOption /\ [][NextOption]_vars

SpecConcurrent == Init /\ [][NextConcurrent]_vars

\* Undeploys and cleanups of one process on a ref whose checkouts are
\* there from the start, with or without files/.ref, locked or not, and
\* with any fault of the probe; applications lock and exit in between.
InitProbe ==
  /\ RewriterInit
  /\ LookupInit
  /\ ExportsInit
  /\ ExecInit
  /\ FetchInit
  /\ RepoInit
  /\ OverrideInit
  /\ OptionInit
  /\ ResolveInit
  /\ LoadedInit
  /\ CurrentInit
  /\ CollectInit
  /\ \E D \in SUBSET (Ids \cap Checksums) :
       \E r \in [Ids -> {-1, 0}] :
         checkouts = [i \in Ids |-> IF i \in D THEN [Deployed(i) EXCEPT !.ref = r[i]]
                                    ELSE NoCheckout]
  /\ active = Absent
  /\ removed_dir = FALSE
  /\ proc = [p \in Procs |-> Idle]
  /\ ref_lock \in [Ids -> BOOLEAN]
  /\ \A i \in Ids : ref_lock[i] => checkouts[i].ref >= 0
  /\ ref_fault \in [Ids -> ProbeFaults]
  /\ \A i \in Ids : ref_fault[i] # "none" => checkouts[i].ref >= 0

NextProbe ==
  \/ undeploy_call(1) \/ undeploy_ensure_removed(1) \/ undeploy_read_active(1)
  \/ undeploy_rename(1) \/ undeploy_probe(1) \/ undeploy_rm_rf(1)
  \/ cleanup_call(1) \/ cleanup_step(1)
  \/ finish(1)
  \/ app_step

SpecProbe == InitProbe /\ [][NextProbe]_vars

\* collect-deployed-refs over a <base>/<kind>/ that is missing or holds up
\* to MaxEntries entries, some of the refs in it deployed.
InitCollect ==
  /\ StoreInit
  /\ RewriterInit
  /\ ExportsInit
  /\ ExecInit
  /\ FetchInit
  /\ RepoInit
  /\ OverrideInit
  /\ OptionInit
  /\ ResolveInit
  /\ LoadedInit
  /\ CurrentInit
  /\ ProbeInit
  /\ answer = NoAnswer
  /\ current = NoLink
  /\ collected = NotCollected
  /\ \/ kind_dir = NoKindDir
     \/ \E k \in 0..MaxEntries :
          \E m \in [1..k -> Paths \X {"file", "dir"}] :
            LET made == {m[i] : i \in 1..k} IN
            /\ Consistent(made)
            /\ kind_dir = KindDirWith(made)
  /\ actives \in SUBSET {q \in Paths : Len(q) = 3 /\ kind_dir.entries[q] = "dir"}

NextCollect ==
  \E branch \in BranchNames, arch \in ArchNames :
    \/ collect_deployed_refs_call(FALSE, <<>>, branch, arch)
    \/ collect_deployed_refs_call(TRUE, NameA, branch, arch)

SpecCollect == InitCollect /\ [][NextCollect]_vars

\* make-current-ref for refs of one application, of any arch and any
\* branch, and reads of current-ref by another process between its steps.
InitCurrent ==
  /\ StoreInit
  /\ RewriterInit
  /\ ExportsInit
  /\ ExecInit
  /\ FetchInit
  /\ RepoInit
  /\ OverrideInit
  /\ OptionInit
  /\ ResolveInit
  /\ LoadedInit
  /\ CurrentInit
  /\ CollectInit
  /\ ProbeInit
  /\ kind_dir = NoKindDir
  /\ answer = NoAnswer
  /\ current \in {NoLink, NameAB \o Slash \o NameA}

NextCurrent ==
  \/ \E arch \in ArchNames, branch \in BranchNames \cup {EmptyBranch} :
       make_current_ref_call(arch, branch)
  \/ make_current_ref_symlink
  \/ make_current_ref_return
  \/ current_ref_call

SpecCurrent == InitCurrent /\ [][NextCurrent]_vars

\* load-deployed in a store of either scope, with any deployments, any
\* `active` and any override files.
InitLoaded ==
  /\ RewriterInit
  /\ LookupInit
  /\ ExportsInit
  /\ ExecInit
  /\ FetchInit
  /\ OptionInit
  /\ ResolveInit
  /\ LoadedInit
  /\ CurrentInit
  /\ CollectInit
  /\ ProbeInit
  /\ \E D \in SUBSET (Ids \cap Checksums) :
       checkouts = [i \in Ids |-> IF i \in D THEN Deployed(i) ELSE NoCheckout]
  /\ active \in Checksums \cup {Absent}
  /\ removed_dir = FALSE
  /\ proc = [p \in Procs |-> Idle]
  /\ ref_lock = [i \in Ids |-> FALSE]
  /\ user \in BOOLEAN
  /\ repo_dir = "none"
  /\ self_repo = [p \in Procs |-> "NULL"]
  /\ er = [p \in Procs |-> NotCalled]
  /\ overrides \in [OverridePairs -> {NoFile, [value |-> 0, extra |-> "none"],
                                       [value |-> 1, extra |-> "comment"]}]
  /\ ov = NoOverrideOp

NextLoaded ==
  \E kind \in RefKinds, app \in OverrideApps, c \in Checksums \cup {Absent} :
    load_deployed_call(kind, app, c)

SpecLoaded == InitLoaded /\ [][NextLoaded]_vars

\* Deploys of the tip of the ref, with any `origin` and any revisions in
\* the object store.
InitResolve ==
  /\ StoreInit
  /\ RewriterInit
  /\ LookupInit
  /\ ExportsInit
  /\ ExecInit
  /\ FetchInit
  /\ RepoInit
  /\ OverrideInit
  /\ OptionInit
  /\ LoadedInit
  /\ CurrentInit
  /\ CollectInit
  /\ ProbeInit
  /\ origin_file \in RemoteNames \cup {NoOrigin}
  /\ repo_refs \in [Revisions -> Checksums \cup {Absent}]

NextResolve ==
  \/ deploy_tip_call(1) \/ deploy_step(1)
  \/ set_active_symlink(1) \/ set_active_rename(1)
  \/ finish(1)

SpecResolve == InitResolve /\ [][NextResolve]_vars

\* Two processes that each run one undeploy on a ref with two complete
\* deployments, one of them active.
Undeployers == {1, 2}

InitUndeploys ==
  /\ RewriterInit
  /\ LookupInit
  /\ ExportsInit
  /\ ExecInit
  /\ FetchInit
  /\ RepoInit
  /\ OverrideInit
  /\ OptionInit
  /\ ResolveInit
  /\ LoadedInit
  /\ CurrentInit
  /\ CollectInit
  /\ ProbeInit
  /\ checkouts = [i \in Ids |-> IF i \in Undeployers THEN Deployed(i) ELSE NoCheckout]
  /\ active \in Undeployers
  /\ removed_dir \in BOOLEAN
  /\ proc = [p \in Procs |-> Idle]
  /\ ref_lock \in [Ids -> BOOLEAN]
  /\ \A i \in Ids : ref_lock[i] => i \in Undeployers

NextUndeploys ==
  \E p \in Undeployers : undeploy_call(p) \/ undeploy_step(p) \/ set_active_step(p)

SpecUndeploys == InitUndeploys /\ [][NextUndeploys]_vars

\* The store process keeps taking the steps of the operation it is in and
\* keeps being asked to run cleanup-removed, and the enumeration of
\* .removed/ does not fail for ever before it returned a given entry.
SpecLive ==
  /\ Init /\ [][NextRemoval]_vars
  /\ WF_vars(store_step(1))
  /\ SF_vars(cleanup_call(1) /\ proc'[1].pc = "cl_next")
  /\ \A e \in Ids : SF_vars(cleanup_probe(1, e))

\* ------------------------------------------------------------ claims
\* A checkout whose deploy ran to the end: checkout-tree finished, files/.ref
\* was written and the Launcher Rewriter finished over export/ (if any).
Complete(co) == co.tree /\ co.ref = 0 /\ co.export \in {"none", "rewritten"}

\* Process p is past the rename of its undeploy into .removed/.
Moved(p) == proc[p].op = "undeploy" /\ proc[p].mine # Absent

\* Process p returned r from operation o and the result has not been taken yet.
Returned(p, o, r) == proc[p].pc = "done" /\ proc[p].op = o /\ proc[p].ret = r

\* Process p took a step.
Stepped(p) == proc'[p] # proc[p]

\* C1 (as claimed): in every reachable state of runs of deploy, set-active
\* and undeploy, `active` is absent or names a checkout directory that
\* exists under the deploy base.
C1_ActiveNamesExistingCheckout == active = Absent \/ query_exists(active)

\* C2 (as claimed): whenever `active` names a checksum whose directory
\* exists, that checkout is complete, in every state of interleaved deploy
\* and undeploy operations.
C2_ActiveCheckoutComplete ==
  (active # Absent /\ query_exists(active)) => Complete(checkouts[DirAt(active)])

\* C3 (as claimed): no step of an undeploy with force unset, nor of
\* cleanup-removed, deletes an entry of .removed/ while a process holds the
\* lock on its files/.ref.
C3_NoDeleteWhileLocked ==
  [][\A p \in Procs, i \in Ids :
       (/\ proc[p].pc \in {"ud_rm", "cl_rm"}
        /\ ~proc[p].force
        /\ Stepped(p)
        /\ checkouts[i].where = "removed"
        /\ checkouts'[i].where = "deleted")
       => ~LockHeld(i)]_vars

\* C4: in every state of an undeploy that is past its rename into
\* .removed/, `active` does not name the checksum being undeployed.
C4_RepointBeforeRename == \A p \in Procs : Moved(p) => active # proc[p].sum

C4_Witness ==
  \E p \in Procs : Moved(p) /\ proc[p].wasActive /\ proc[p].pc \in {"ud_probe", "ud_rm"}

\* C5: every step taken while set-active with a checksum c runs leaves
\* `active` as it was or makes it c, and never makes a present `active` absent.
C5_SetActiveAtomicSwap ==
  [][\A p \in Procs :
       proc[p].pc \in {"sa_symlink", "sa_rename"}
       => /\ active' \in {active, proc[p].target}
          /\ (active # Absent => active' # Absent)]_vars

C5_Witness ==
  \E p \in Procs :
    /\ proc[p].op = "set_active" /\ proc[p].pc = "sa_rename"
    /\ active \notin {Absent, proc[p].target}

\* C6: after a successful undeploy of the checksum that `active` named,
\* `active` names one of the remaining deployed checksums when there is one
\* (never the removed checksum) and is absent when there is none.
C6_UndeployActiveFallback ==
  \A p \in Procs :
    (Returned(p, "undeploy", "ok") /\ proc[p].wasActive)
    => /\ active # proc[p].sum
       /\ IF list_deployed # {} THEN active \in list_deployed ELSE active = Absent

C6_Witness ==
  \E p \in Procs :
    Returned(p, "undeploy", "ok") /\ proc[p].wasActive /\ active \in list_deployed

C9_DeployPostcondition ==
  \A p \in Procs :
    Returned(p, "deploy", "ok")
    => /\ query_exists(proc[p].sum)
       /\ checkouts[DirAt(proc[p].sum)].tree
       /\ checkouts[DirAt(proc[p].sum)].ref = 0
       /\ active = proc[p].sum

C9_Witness ==
  \E p \in Procs : Returned(p, "deploy", "ok") /\ CommitRefSize(proc[p].sum) > 0

\* C10 (as claimed): a deploy of a checksum whose directory exists when it
\* is called returns ALREADY_DEPLOYED.
C10_AlwaysAlreadyDeployed ==
  \A p \in Procs :
    (proc[p].pc = "done" /\ proc[p].op = "deploy" /\ proc[p].hadDir)
    => proc[p].ret = "ALREADY_DEPLOYED"

\* C10 (amended): a deploy of a checksum whose directory exists changes
\* nothing under the deploy base nor .removed/; it fails in the calls into
\* the object store that come first, or else reaches the existence check
\* and returns ALREADY_DEPLOYED there.
C10_AlreadyDeployedNoChange ==
  [][\A p \in Procs :
       (proc[p].op = "deploy" /\ proc[p].hadDir)
       => /\ UNCHANGED <<checkouts, active, removed_dir>>
          /\ proc[p].pc \in {"dp_exists", "done"}
          /\ proc[p].pc = "done" => proc[p].ret \in {"error", "ALREADY_DEPLOYED"}
          /\ (proc[p].pc = "dp_exists" /\ Stepped(p))
               => (proc'[p].pc = "done" /\ proc'[p].ret = "ALREADY_DEPLOYED")]_vars

C10_Witness == \E p \in Procs : Returned(p, "deploy", "ALREADY_DEPLOYED") /\ proc[p].hadDir

\* C11: an undeploy called for a checksum whose directory is absent returns
\* ALREADY_UNDEPLOYED in its first step, and that step leaves `active`, the
\* checkouts and .removed/ as they were, whatever `active` names.
C11_AlreadyUndeployedFirst ==
  [][\A p \in Procs :
       (/\ proc[p].pc = "idle"
        /\ proc'[p].op = "undeploy"
        /\ ~query_exists(proc'[p].sum))
       => /\ proc'[p].pc = "done"
          /\ proc'[p].ret = "ALREADY_UNDEPLOYED"
          /\ UNCHANGED <<checkouts, active, removed_dir>>]_vars

C11_Witness ==
  \E p \in Procs :
    /\ Returned(p, "undeploy", "ALREADY_UNDEPLOYED")
    /\ active = proc[p].sum
    /\ \E i \in Ids : checkouts[i].where = "base"

\* C13 (as claimed): after a failed deploy a directory of its checksum that
\* was not there before exists only if the checkout step completed, and a
\* deploy that failed before the checkout step made no directory.
C13_LeftoverOnlyAfterCheckout ==
  \A p \in Procs :
    (proc[p].pc = "done" /\ proc[p].op = "deploy" /\ proc[p].ret # "ok")
    => /\ (~proc[p].hadDir /\ query_exists(proc[p].sum))
            => checkouts[DirAt(proc[p].sum)].tree
       /\ proc[p].mine = Absent => (query_exists(proc[p].sum) <=> proc[p].hadDir)

\* C14: after a successful set-active `active` is the checksum given, or
\* absent when none was given, and the unlink of an `active` that is
\* already absent succeeds.
C14_SetActiveReadBack ==
  /\ [](\A p \in Procs : Returned(p, "set_active", "ok") => active = proc[p].sum)
  /\ [][\A p \in Procs :
          (proc[p].op = "set_active" /\ proc[p].pc = "sa_unlink" /\ active = Absent /\ Stepped(p))
          => (proc'[p].pc = "done" /\ proc'[p].ret = "ok" /\ active' = Absent)]_vars

C14_Witness ==
  \E p \in Procs :
    Returned(p, "set_active", "ok") /\ proc[p].sum = Absent /\ proc[p].wasActive

\* C12: a step of a deploy changes `active` only as the last step of a
\* deploy that returns success, so a deploy that fails leaves `active` as
\* it was; a deploy that fails on the name of a .service file has left it
\* so, with the checkout in place.
C12_FailedDeployKeepsActive ==
  [][\A p \in Procs :
       /\ (proc[p].op = "deploy" /\ active' # active)
            => (proc'[p].pc = "done" /\ proc'[p].ret = "ok" /\ active' = proc[p].sum)
       /\ (proc[p].op = "deploy" /\ proc'[p].pc = "done" /\ proc'[p].ret # "ok")
            => active' = active
       /\ (proc[p].op = "deploy" /\ proc[p].pc # "done" /\ proc'[p].ret = "wrong name")
            => (proc[p].pc = "dp_export" /\ active' = active)]_vars

C12_Witness ==
  \E p \in Procs :
    /\ Returned(p, "deploy", "wrong name")
    /\ active \notin {Absent, proc[p].sum}
    /\ query_exists(active)

\* The iterator returns the name n, which this walk has not processed yet.
Processes(n) ==
  /\ rw.pc = "walk"
  /\ n \in rw.stack[Len(rw.stack)].pending
  /\ n \notin rw.stack[Len(rw.stack)].visited
  /\ rw'.dent = n

\* The directory the walk is in.
WalkDir == rw.stack[Len(rw.stack)].dir

\* C20 (as claimed): the step of the Launcher Rewriter on a regular file
\* that is not prefixed with the app name deletes it and the walk goes on,
\* whatever the suffix of the name; the walk ends there only when a system
\* call fails.
C20_UnprefixedFileDeleted ==
  [][\A n \in FileNames :
       (Processes(n) /\ ~n.prefixed /\ export_dir[WalkDir][n].type = "reg")
       => \/ rw'.pc = "done" /\ rw'.ret = "error"
          \/ rw'.pc = "walk" /\ export_dir'[WalkDir][n] = Missing]_vars

\* C15 (as claimed): a successful list-refs returns, in ascending order and
\* without duplicates, exactly the refs kind/name/arch/branch whose name,
\* arch and branch are nested directories and whose name is not `data`.
C15_ListRefsSortedExact ==
  (answer.op = "list_refs" /\ answer.ret = "ok")
  => /\ \A i, j \in 1..Len(answer.value) :
          i < j => StrLess(answer.value[i], answer.value[j])
     /\ {answer.value[i] : i \in 1..Len(answer.value)}
          = {RefString(x[1], x[2], x[3]) : x \in
               {y \in Names \X ArchNames \X BranchNames :
                  /\ IsDir(<<y[1]>>) /\ IsDir(<<y[1], y[2]>>) /\ IsDir(y)
                  /\ y[1] # NameData}}

\* C16: a lookup that finds nothing succeeds with an empty list or an
\* absent value: list-refs and list-refs-for-name on a missing directory,
\* list-deployed on a missing deploy base, current-ref without `current`,
\* read-active without `active`; and no lookup changes anything on disk.
C16_LookupsFindNothing ==
  /\ [](/\ (answer.op = "list_refs" /\ ~kind_dir.exists)
             => (answer.ret = "ok" /\ answer.value = <<>>)
        /\ (answer.op = "list_refs_for_name"
             /\ (~kind_dir.exists \/ kind_dir.entries[<<answer.arg>>] = "none"))
             => (answer.ret = "ok" /\ answer.value = <<>>)
        /\ (answer.op = "list_deployed" /\ ~deploy_base_exists)
             => (answer.ret = "ok" /\ answer.value = {})
        /\ (answer.op = "current_ref" /\ current = NoLink)
             => (answer.ret = "ok" /\ answer.value = NoLink)
        /\ (answer.op = "read_active" /\ active = Absent)
             => (answer.ret = "ok" /\ answer.value = Absent))
  /\ [][answer'.op # "none"
          => UNCHANGED <<other_than_lookup, kind_dir, current>>]_vars

C16_Witness ==
  /\ answer.op = "list_refs_for_name"
  /\ kind_dir.exists
  /\ kind_dir.entries[<<answer.arg>>] = "none"
  /\ \E q \in Paths : kind_dir.entries[q] = "dir"
  /\ answer.ret = "ok"

\* update-exports has returned success.
UpdateExportsOk == ux.pc = "done" /\ ux.ret = "ok"

\* C17: once update-exports has succeeded no symlink under exports/ is
\* dangling: every symlink left resolves to an existing file through an
\* application's current/active/export path, and every symlink that did not
\* resolve is gone.
C17_NoDanglingSymlink ==
  UpdateExportsOk =>
    \A q \in ExportPaths : exports[q] \in Links => Resolves(exports[q], q)

\* update-exports succeeded and a symlink that was in exports/ when it began
\* has been removed.
C17_Witness ==
  /\ UpdateExportsOk
  /\ \E q \in ExportPaths : ux.before[q] \in Links /\ exports[q] = "none"

\* C18: after update-exports exports/ mirrors the export/ of the active
\* deployment, directories as directories and regular files as symlinks
\* into current/active/export, and an entry already at a destination path,
\* whatever its type, is replaced and never makes update-exports fail.
C18_ExportMirrored ==
  /\ (UpdateExportsOk /\ app_export.exists) =>
       \A q \in ExportPaths :
         /\ app_export.entries[q] = "dir" => exports[q] = "dir"
         /\ app_export.entries[q] = "file" => exports[q] = "link_own"
  /\ ux.pc = "done" => ux.ret \notin {"EISDIR", "ENOTDIR"}

\* C19: a successful update-exports that follows a successful one, with
\* nothing else changed in between, leaves the same exports/ tree and runs
\* the same triggers with the same arguments in the same order.
C19_UpdateExportsIdempotent ==
  (UpdateExportsOk /\ last.known) =>
    /\ exports = last.tree
    /\ ux.invoked = last.invoked

\* The second of two successful runs, with two triggers run and a symlink
\* exported.
C19_Witness ==
  /\ UpdateExportsOk
  /\ last.known
  /\ Len(ux.invoked) = 2
  /\ \E q \in ExportPaths : exports[q] = "link_own" /\ ux.before[q] = "link_own"

\* The words of a command line, one space between them.
RECURSIVE JoinWords(_)
JoinWords(words) ==
  IF Len(words) = 0 THEN <<>>
  ELSE IF Len(words) = 1 THEN words[1]
  ELSE words[1] \o <<Space>> \o JoinWords(Tail(words))

\* The shell tokens of the Exec value of the i-th group of the key file
\* being exported, none when it has no Exec or the value does not parse.
OldArgv(i) ==
  IF desktop.groups[i].Exec.has
  THEN g_shell_parse_argv(desktop.groups[i].Exec.value).argv
  ELSE <<>>

\* C21: every group of a rewritten key file has no TryExec and no
\* X-GNOME-Bugzilla-ExtraInfoScript key, and its Exec is the launcher
\* followed by run, --branch=, --arch=, then --command= with the first token
\* of the old Exec when there is one, the application, and the remaining
\* tokens in order.
C21_ExecRewritten ==
  exported.done =>
    \A i \in 1..Len(desktop.groups) :
      LET g == exported.groups[i]
          old == OldArgv(i)
      IN /\ ~g.TryExec
         /\ ~g.ExtraInfoScript
         /\ g.Exec.has
         /\ g.Exec.value =
              JoinWords(<<LauncherPath, StrRun,
                          StrBranchOpt \o maybe_quote(desktop.branch),
                          StrArchOpt \o maybe_quote(desktop.arch)>>
                        \o (IF Len(old) >= 1
                            THEN <<StrCommandOpt \o maybe_quote(old[1])>>
                            ELSE <<>>)
                        \o <<maybe_quote(desktop.app)>>
                        \o [k \in 1..(Len(old) - 1) |-> maybe_quote(old[k + 1])])

\* A key file was rewritten with a group whose Exec had a command and an
\* argument and a group that had no Exec.
C21_Witness ==
  /\ exported.done
  /\ \E i \in 1..Len(desktop.groups) : Len(OldArgv(i)) = 2 /\ desktop.groups[i].TryExec
  /\ \E i \in 1..Len(desktop.groups) : ~desktop.groups[i].Exec.has

\* The characters that are inserted without quoting: letters, digits and
\* _ - . % = : / @
VerbatimChars == (65..90) \cup (97..122) \cup (48..57) \cup {95, 45, 46, 37, 61, 58, 47, 64}

\* The tokens substituted into the Exec of the i-th group.
Substituted(i) ==
  {desktop.app, desktop.branch, desktop.arch} \cup {OldArgv(i)[k] : k \in 1..Len(OldArgv(i))}

\* C22: a token substituted into the rewritten Exec is shell-quoted exactly
\* when one of its characters is outside [A-Za-z0-9_\-.%=:/@]; any other
\* token, the empty one included, is inserted as it is.
C22_QuotedIffUnsafe ==
  exported.done =>
    \A i \in 1..Len(desktop.groups) :
      LET old == OldArgv(i)
          put(t) == IF \E k \in 1..Len(t) : t[k] \notin VerbatimChars
                    THEN g_shell_quote(t) ELSE t
      IN exported.groups[i].Exec.value =
           JoinWords(<<LauncherPath, StrRun,
                       StrBranchOpt \o put(desktop.branch),
                       StrArchOpt \o put(desktop.arch)>>
                     \o (IF Len(old) >= 1 THEN <<StrCommandOpt \o put(old[1])>> ELSE <<>>)
                     \o <<put(desktop.app)>>
                     \o [k \in 1..(Len(old) - 1) |-> put(old[k + 1])])

\* A key file was rewritten with an empty token, a token of verbatim
\* characters that are not alphanumeric, and a token that needs quoting.
C22_Witness ==
  /\ exported.done
  /\ \E i \in 1..Len(desktop.groups) : \E t \in Substituted(i) : t = <<>>
  /\ \E i \in 1..Len(desktop.groups) : \E t \in Substituted(i) : t = <<37>>
  /\ \E i \in 1..Len(desktop.groups) : \E t \in Substituted(i) : need_quotes(t)

\* The argument vectors of the regular *.trigger files among the files from
\* the i-th on, in the order of enumeration.
RECURSIVE TriggersFrom(_)
TriggersFrom(i) ==
  IF i > Len(triggers.files) THEN <<>>
  ELSE (IF triggers.files[i].regular /\ triggers.files[i].suffix
        THEN <<TriggerArgv(triggers.files[i])>> ELSE <<>>) \o TriggersFrom(i + 1)

\* C23: a trigger that cannot be spawned or exits with a non-zero status
\* does not change the result of update-exports: the run goes on to the next
\* file whatever the outcome was, and a successful update-exports has
\* invoked every regular *.trigger file.
C23_TriggerFailuresSwallowed ==
  /\ [](UpdateExportsOk => ux.invoked = TriggersFrom(1))
  /\ [][Len(ux'.outcomes) > Len(ux.outcomes) =>
          /\ ux'.pc = "triggers"
          /\ ux'.ret = ux.ret
          /\ ux'.next = ux.next + 1]_vars

\* update-exports succeeded although the first of two triggers failed.
C23_Witness ==
  /\ UpdateExportsOk
  /\ Len(ux.outcomes) = 2
  /\ ux.outcomes[1] # "ok"

FilezTooShort ==
  LET o == remote.objects["filez"]
  IN o.size < 8 \/ o.header.hi > 0 \/ o.header.lo + 8 > o.size

\* C25: a .filez object that is shorter than 8 bytes, or whose header-size
\* h makes 4 + h + 4 exceed its length, is rejected with FAILED whatever h
\* is, and nothing of it is handed to the decompressor.
C25_FilezHeaderChecked ==
  (fetch.pc = "done" /\ "filez" \in {fetch.requests[k] : k \in 1..Len(fetch.requests)}
     /\ fetch.load.ok /\ FilezTooShort) =>
    fetch.ret = "FAILED" /\ ~fetch.handed.any

\* The object of type t was loaded and passed its validation.
Trusted(t) ==
  /\ xdg_app_dir_load_uri(remote.scheme, remote.objects[t]).ok
  /\ remote.objects[t].good

\* An object of type t has been asked for in this run.
Requested(t) == \E k \in 1..Len(fetch.requests) : fetch.requests[k] = t

\* C26: fetch-metadata asks for the root dirtree only after the commit was
\* fetched and validated, and for a .filez object only after the dirtree was
\* validated and an entry named metadata was found in it; without such an
\* entry it fails with NOT_FOUND and asks for no .filez object, and once a
\* fetch or a validation has failed nothing more is requested.
C26_TrustStepByStep ==
  /\ [](/\ \E k \in 0..3 : fetch.requests = SubSeq(<<"commit", "dirtree", "filez">>, 1, k)
        /\ Requested("dirtree") => Trusted("commit")
        /\ Requested("filez") => Trusted("dirtree") /\ remote.objects["dirtree"].has_metadata
        /\ (fetch.pc = "done" /\ Requested("dirtree") /\ Trusted("dirtree")
              /\ ~remote.objects["dirtree"].has_metadata) =>
             fetch.ret = "NOT_FOUND" /\ ~Requested("filez"))
  /\ [][fetch.pc = "done" => fetch'.requests = <<>>]_vars

\* fetch-metadata has asked for the three objects in turn and returned the
\* metadata.
C26_Witness == fetch.pc = "done" /\ fetch.ret = "ok" /\ Len(fetch.requests) = 3

\* The object asked for last.
LastRequested == remote.objects[fetch.requests[Len(fetch.requests)]]

\* C27: every outcome of loading a URI is mapped to a result: over http and
\* https a 2xx status gives the body, 404 and 410 give NOT_FOUND and any
\* other status gives FAILED; any other scheme than file, http and https
\* gives FAILED; and every failure, that of a file:// URI that cannot be
\* read included, comes with an error kind.
C27_LoadUriMapsEveryOutcome ==
  (fetch.requests # <<>> /\ fetch.pc # "idle") =>
    /\ remote.scheme \in {"http", "https"} =>
         /\ SOUP_STATUS_IS_SUCCESSFUL(LastRequested.status) => fetch.load.ok
         /\ LastRequested.status \in {404, 410} => fetch.load = NotLoaded("NOT_FOUND")
         /\ (~SOUP_STATUS_IS_SUCCESSFUL(LastRequested.status)
               /\ LastRequested.status \notin {404, 410}) => fetch.load = NotLoaded("FAILED")
    /\ remote.scheme \notin {"file", "http", "https"} => fetch.load = NotLoaded("FAILED")
    /\ ~fetch.load.ok => fetch.load.kind \in {"NOT_FOUND", "FAILED"}

C29_OverrideRoundTrip ==
  /\ []((ov.op = "load" /\ overrides[ov.pair] # NoFile) => ov.k = overrides[ov.pair])
  /\ [][\A pair \in OverridePairs :
          overrides'[pair] # overrides[pair] => ov'.op = "save" /\ ov'.pair = pair]_vars

\* C30: get-remote-noenumerate gives true for a remote whose group does not
\* set xa.noenumerate, and the configured boolean for one that sets it.
C30_NoenumerateDefaultsTrue ==
  option.op = "noenumerate" =>
    LET set == config.groups[option.remote].noenumerate
    IN /\ set = "unset" => option.flag = TRUE
       /\ set = "true" => option.flag = TRUE
       /\ set = "false" => option.flag = FALSE

\* Process p is between two operations: none called yet, or the last one
\* has returned.
AtRest(p) == proc[p].pc \in {"idle", "done"}

\* C31: when deploy and undeploy run one at a time in one process, after
\* every operation, successful or failed, `active` is absent or names a
\* checksum directory that exists under the deploy base.
C31_ActiveExistsAfterOperation ==
  AtRest(1) => (active = Absent \/ query_exists(active))

\* An undeploy of the active checksum has returned with `active` repointed
\* to another deployment.
C31_Witness ==
  /\ proc[1].pc = "done" /\ proc[1].op = "undeploy"
  /\ proc[1].wasActive
  /\ active \notin {Absent, proc[1].sum}

\* C32 (as claimed): once two processes have both returned from concurrent
\* undeploys of two different deployed checksums of a ref, one of them
\* active, `active` is absent or names a checkout that exists under the
\* deploy base, and names neither of the two checksums.
C32_ConcurrentUndeploysKeepActive ==
  (/\ Returned(1, "undeploy", "ok")
   /\ Returned(2, "undeploy", "ok")
   /\ proc[1].sum # proc[2].sum)
  => /\ active = Absent \/ query_exists(active)
     /\ active \notin {proc[1].sum, proc[2].sum}

\* C33: a deploy without a checksum resolves <origin>:<ref> when `origin`
\* names a remote and <ref> alone when there is no `origin`, and deploys
\* the commit that revision resolves to; when it does not resolve the
\* deploy fails at once, with no checkout made and `active` as it was.
C33_TipResolvedAgainstOrigin ==
  [][\A p \in Procs :
       (proc[p].pc = "idle" /\ proc'[p].op = "deploy" /\ proc'[p].rev # <<>>)
       => /\ origin_file \in RemoteNames => proc'[p].rev = <<origin_file, ":", RefName>>
          /\ origin_file = NoOrigin => proc'[p].rev = <<RefName>>
          /\ repo_refs[proc'[p].rev] # Absent
               => (proc'[p].pc = "dp_exists" /\ proc'[p].sum = repo_refs[proc'[p].rev])
          /\ repo_refs[proc'[p].rev] = Absent
               => /\ proc'[p].pc = "done" /\ proc'[p].ret = "error"
                  /\ UNCHANGED <<checkouts, active>>]_vars

\* The tip of the origin's branch was deployed where the same branch of the
\* other remote, and the ref with no remote, are other commits.
C33_Witness ==
  \E p \in Procs :
    /\ Returned(p, "deploy", "ok")
    /\ origin_file \in RemoteNames
    /\ active = repo_refs[<<origin_file, ":", RefName>>]
    /\ \A rev \in Revisions \ {<<origin_file, ":", RefName>>} : repo_refs[rev] \notin {Absent, active}

\* C34: in one run of the Launcher Rewriter no file is wrapped in the
\* launcher more than once, a name the iterator returns again after it was
\* processed is skipped with nothing changed, and the walk ends.
C34_TransformedAtMostOnce ==
  /\ [][/\ \A d \in Dirs, n \in AllNames : export_dir'[d][n].data.wraps <= 1
        /\ \A n \in AllNames :
             (/\ rw.pc = "walk"
              /\ n \in rw.stack[Len(rw.stack)].pending
              /\ n \in rw.stack[Len(rw.stack)].visited
              /\ rw'.dent = n
              /\ rw' # rw)
             => (export_dir' = export_dir /\ rw'.pc = "walk")]_vars
  /\ <>(rw.pc = "done")

\* A transformed file whose name the iterator is about to return again.
C34_Witness ==
  /\ rw.pc = "walk"
  /\ \E n \in FileNames :
       /\ n \in rw.stack[Len(rw.stack)].pending
       /\ n \in rw.stack[Len(rw.stack)].visited
       /\ export_dir[WalkDir][n].data.wraps = 1

\* C35: the overrides of a loaded app deploy are the system override, when
\* the store is system-wide, merged first and the user override merged
\* after it; a runtime has no overrides; and load-deployed of a ref or
\* checksum that is not deployed fails with NOT_DEPLOYED.
C35_OverridesSystemThenUser ==
  ld.op = "load_deployed" =>
    /\ ~xdg_app_dir_get_if_deployed(ld.sum) => ld.ret = "NOT_DEPLOYED"
    /\ (ld.ret = "ok" /\ ld.kind = "runtime") => ld.overrides = <<>>
    /\ (ld.ret = "ok" /\ ld.kind = "app" /\ user) =>
         ld.overrides = <<xdg_app_load_override_file(ld.app, TRUE)>>
    /\ (ld.ret = "ok" /\ ld.kind = "app" /\ ~user) =>
         ld.overrides = <<xdg_app_load_override_file(ld.app, FALSE),
                          xdg_app_load_override_file(ld.app, TRUE)>>

\* A system-wide store loaded the active deploy of an app whose two
\* override files differ.
C35_Witness ==
  /\ ld.op = "load_deployed" /\ ld.ret = "ok" /\ ld.kind = "app" /\ ld.sum = Absent
  /\ ~user
  /\ Len(ld.overrides) = 2
  /\ ld.overrides[1] # ld.overrides[2]
  /\ NoFile \notin {overrides[<<ld.app, FALSE>>], overrides[<<ld.app, TRUE>>]}

\* C36: no step of an undeploy of a checksum that `active` does not name
\* changes `active`, a checkout other than the one being removed, the
\* `current` symlink or exports/; only the checkout of that checksum, first
\* under the deploy base and then in .removed/, and .removed/ itself change.
C36_UndeployOfInactiveFrame ==
  [][\A p \in Procs :
       (proc'[p].op = "undeploy" /\ Stepped(p) /\ proc'[p].pc # "idle"
        /\ ~proc'[p].wasActive)
       => /\ active' = active
          /\ \A i \in Ids :
               checkouts'[i] # checkouts[i]
               => /\ checkouts[i].sum = proc'[p].sum
                  /\ i \in {DirAt(proc[p].sum), proc[p].mine}
          /\ current' = current
          /\ exports' = exports]_vars

\* An undeploy of a checksum other than the active one has deleted its
\* checkout while the active deployment is in place.
C36_Witness ==
  \E p \in Procs :
    /\ Returned(p, "undeploy", "ok")
    /\ ~proc[p].wasActive
    /\ checkouts[proc[p].mine] = Gone
    /\ active # Absent /\ query_exists(active)

\* C37: when an undeploy of the active checksum fails after it repointed
\* `active`, in making .removed/ or in the rename into it, it returns
\* failure with the checkout still under the deploy base and `active` as
\* the repointing left it: naming the fallback, or absent when there was
\* no other deployment.
C37_UndeployNoRollback ==
  [][\A p \in Procs :
       (/\ proc[p].op = "undeploy" /\ proc[p].wasActive
        /\ proc[p].pc \in {"ud_ensure_removed", "ud_rename"}
        /\ proc'[p].pc = "done" /\ proc'[p].ret = "error")
       => /\ \E i \in Ids : checkouts'[i].where = "base" /\ checkouts'[i].sum = proc[p].sum
          /\ active' = proc[p].target
          /\ active' # proc[p].sum
          /\ IF some_deployment(proc[p].sum) = {} THEN active' = Absent
             ELSE active' \in some_deployment(proc[p].sum)]_vars

\* A failed undeploy of the only deployment: it is still in place and there
\* is no `active` any more.
C37_Witness ==
  \E p \in Procs :
    /\ Returned(p, "undeploy", "error")
    /\ proc[p].wasActive
    /\ query_exists(proc[p].sum)
    /\ active = Absent

\* C38 (as claimed): between the delete and the create of make-current-ref
\* a read of current-ref returns absent; when the create fails the
\* operation returns failure and there is no `current`; and on success
\* current-ref returns the ref that was given.
C38_CurrentReplacedInTwoSteps ==
  [][/\ (mc.pc = "symlink" /\ answer'.op = "current_ref" /\ mc' = mc)
          => answer'.value = NoLink
     /\ (mc.pc = "symlink" /\ mc'.pc = "done" /\ mc'.ret = "error")
          => current' = NoLink
     /\ (mc.pc = "symlink" /\ mc'.pc = "done" /\ mc'.ret = "ok")
          => KindApp \o Slash \o NameA \o Slash \o current'
               = RefString(NameA, mc.arch, mc.branch)]_vars

\* C38 (amended): make-current-ref deletes `current` and then creates it,
\* and the delete may fail unnoticed: between the two steps `current` is
\* absent or still the previous link, and a read of current-ref returns
\* what is there; when the create fails the operation returns failure and
\* leaves `current` as the delete left it, never putting back a link that
\* was deleted; and a success for a ref with a branch created the link
\* where there was none, so that current-ref returns the ref given.
C38_CurrentNotRestored ==
  [][/\ (mc.pc = "idle" /\ mc'.pc = "symlink")
          => (mc'.before = current /\ current' \in {NoLink, current})
     /\ (mc.pc = "symlink" /\ answer'.op = "current_ref" /\ mc' = mc)
          => /\ current \in {NoLink, mc.before}
             /\ current = NoLink => answer'.value = NoLink
             /\ current # NoLink
                  => answer'.value = KindApp \o Slash \o NameA \o Slash \o mc.before
     /\ (mc.pc = "symlink" /\ mc'.pc = "done" /\ mc'.ret = "error")
          => current' = current
     /\ (mc.pc = "symlink" /\ mc'.pc = "done" /\ mc'.ret = "ok" /\ mc.branch # EmptyBranch)
          => /\ current = NoLink
             /\ KindApp \o Slash \o NameA \o Slash \o current'
                  = RefString(NameA, mc.arch, mc.branch)]_vars

\* A failed make-current-ref has left the application, which had a current
\* ref, without one.
C38_Witness ==
  /\ mc.pc = "done" /\ mc.ret = "error"
  /\ mc.before # NoLink
  /\ current = NoLink

\* C39 (as claimed): a successful collect-deployed-refs adds a name exactly
\* when it is a directory of <base>/<type>/ that is not hidden, begins with
\* the prefix when one is given, and <name>/<arch>/<branch>/active exists
\* and resolves.
C39_CollectsDeployedNames ==
  (collected.op = "collect" /\ collected.ret = "ok") =>
    \A name \in Names :
      name \in collected.names
      <=> /\ kind_dir.exists
          /\ IsDir(<<name>>)
          /\ name[1] # Dot
          /\ collected.given => g_str_has_prefix(name, collected.prefix)
          /\ <<name, collected.arch, collected.branch>> \in actives

\* What the probe of entry i of .removed/ is to report: files/.ref is there
\* and can be opened, the lock query succeeds and a lock is held.
ProbeLocked(i) ==
  /\ checkouts[i].where = "removed"
  /\ checkouts[i].ref >= 0
  /\ ref_fault[i] = "none"
  /\ LockHeld(i)

=============================================================================
